---- MODULE Spec2Model ----
(***************************************************************************)
(* A model of the image-enzyme converters.                                 *)
(*                                                                         *)
(*   Spec        VSIToUniv.convert from the call of _write_univ on         *)
(*               (src/vsi_to_univ.py:193): the container writer, the       *)
(*               pyramid loop, the thumbnail and the groups that follow.   *)
(*   SpecAbort   Spec with h5py raising inside the writer.                 *)
(*   SpecConvert VSIToUniv.convert from _load_vsi to the call of           *)
(*               _write_univ: the decoded array and the rank dispatch.     *)
(*   SpecScene   the scenes of a VSI file: _analyze_vsi_structure and      *)
(*               _find_main_image_scene of VSIToUniv, and                  *)
(*               _analyze_vsi_resolutions and _select_vsi_scene of the GUI.*)
(*   SpecGui     FormatConverterGUI._convert_batch                         *)
(*               (src/format_converter_gui.py): the routing of one job to  *)
(*               its adapters, the intermediate container of a two-hop     *)
(*               job and the job counters.                                 *)
(*   SpecFile    SpecGui with _convert_file, which verifies its output.    *)
(*   SpecMeta    the metadata dict of _load_vsi and the Metadata group     *)
(*               _write_metadata makes of it.                              *)
(*   SpecQueue   the file queue of the GUI, the Convert button, the worker *)
(*               thread of a batch and the names of its outputs.           *)
(*   SpecHooks   the wrappers that redirect builtins.print and logging.    *)
(*   SpecLevels  the levels get_vsi_info lists and _load_vsi reads.        *)
(*                                                                         *)
(* The writer sees an array as its shape, a sequence of extents; the rank  *)
(* dispatch of SpecConvert also carries the elements, on small arrays.     *)
(* The compression options only choose the HDF5 filter of a dataset and    *)
(* are left out.                                                           *)
(***************************************************************************)
EXTENDS Integers, Sequences, FiniteSets, TLC

VARIABLES
    \* ---- VSIToUniv.convert / _write_univ
    pc,             \* position in convert / _write_univ
    shape,          \* image_data.shape handed to _write_univ, (T, C, Z, Y, X)
    create_pyramid, \* the caller's create_pyramid argument
    file_exists,    \* the output path exists on disk
    datasets,       \* ImageData/Resolution_k, in creation order: [level, shape, chunks]
    current_data,   \* shape of current_data in _create_pyramid
    level,          \* level counter of _create_pyramid
    thumbnail,      \* shape of the Thumbnail dataset, <<>> until written
    groups,         \* top-level groups / stamps of the file, in creation order
    result,         \* what convert returned: "none", "True" or "False"
    decoded,        \* what _load_vsi returned: an array, None, or NotLoaded
    image_data,     \* convert's image_data after the rank dispatch, or NoArray
    schema,         \* the root attributes of the file written by _write_schema
    metadata,       \* the metadata dict _load_vsi returned, or NoMetadata
    meta_group,     \* the Metadata group written by _write_metadata, or NoGroup
    physical_pixel_sizes, \* img.physical_pixel_sizes of the scene that is read
    resolution_level,     \* the caller's resolution_level argument
    \* ---- FormatConverterGUI
    g_pc,           \* "idle", "batch", "batch_done", "thread_ended", "file_done"; else "off"
    file_list,      \* the worker's copy of the queue: the kind of each input path
    i,              \* number of files of file_list the batch loop has gone through
    output_format,  \* the radio button's value
    successful,     \* _convert_batch's counter
    failed,         \* _convert_batch's counter
    job,            \* what the last job did (see JobRecord)
    is_converting,  \* FormatConverterGUI.is_converting
    \* ---- the file queue of the GUI and the output folder of a batch
    file_queue,     \* FormatConverterGUI.file_queue: the paths queued, in order
    file_listbox,   \* the entries of the listbox: file names, in order
    custom_output_name, \* FormatConverterGUI.custom_output_name, or None
    threads,        \* number of live threads running _convert_batch
    folder,         \* the names that exist in the output folder
    output_path,    \* name of the output path the last job chose, <<>> before
    started_with,   \* the queue as it was when the last batch was started
    attempted,      \* the input paths the worker has gone through, in order
    \* ---- the output hooks the wrappers of the GUI redirect
    h_pc,           \* the worker: "idle", or "wrapped" inside a wrapper's try; else "off"
    wrapper,        \* the wrapper the worker entered last, "none" before
    exit_path,      \* how that wrapper was left: "return", "Exception", "SystemExit"
    builtins_print, \* the function bound to builtins.print
    original_print, \* original_print of the wrapper the worker is in
    log_handlers,   \* the handlers on logging.getLogger('__main__')
    v_pc,           \* the main thread: "idle", or "validating" inside _validate_file's try
    v_original_print, \* original_print of _validate_file
    \* ---- the resolution levels of the main scene
    main_scene,     \* width and height of the main scene, in pixels
    available_resolutions, \* 'available_resolutions' of what get_vsi_info returned
    loaded,         \* level, X and Y extents of the data _load_vsi read, <<>> before
    \* ---- scene analysis and selection of a multi-scene VSI file
    s_pc,           \* "open", "analyzed", "found", "listed", "picked", "selected"; else "off"
    scenes,         \* the scenes of the file in index order: [name, width, height]
    scene_info,     \* the list _analyze_vsi_structure returned: [index, name, total_pixels]
    scene_types,    \* scene_type of each scene in VSIToUniv._analyze_vsi_structure
    scene_index,    \* what VSIToUniv._find_main_image_scene returned, -1 before
    categories,     \* the list _analyze_vsi_resolutions put each scene on
    vsi_resolution, \* the value of the GUI's resolution dropdown
    main_scene_idx  \* the scene _select_vsi_scene made current, -1 before

wvars == <<pc, shape, create_pyramid, file_exists, datasets, current_data,
           level, thumbnail, groups, result, decoded, image_data, schema,
           metadata, meta_group, physical_pixel_sizes,
                   resolution_level>>
gvars == <<g_pc, file_list, i, output_format, successful, failed, job, is_converting>>
svars == <<s_pc, scenes, scene_info, scene_types, scene_index, categories, vsi_resolution,
           main_scene_idx>>
qvars == <<file_queue, file_listbox, custom_output_name, threads, folder, output_path,
           started_with, attempted>>
hvars == <<h_pc, wrapper, exit_path, builtins_print, original_print, log_handlers, v_pc,
           v_original_print>>
rvars == <<main_scene, available_resolutions, loaded>>
\* what the actions of one part leave alone
notWriter == <<gvars, svars, qvars, hvars, rvars>>
notGui == <<wvars, svars, qvars, hvars, rvars>>
notScene == <<wvars, gvars, qvars, hvars, rvars>>
notQueue == <<wvars, svars, hvars, rvars>>
notHooks == <<wvars, gvars, svars, qvars, rvars>>
notLevels == <<wvars, gvars, svars, qvars, hvars>>
vars == <<pc, shape, create_pyramid, file_exists, datasets, current_data,
          level, thumbnail, groups, result, decoded, image_data, schema,
          metadata, meta_group, physical_pixel_sizes, resolution_level,
          g_pc, file_list, i, output_format, successful, failed, job, is_converting,
          s_pc, scenes, scene_info, scene_types, scene_index, categories, vsi_resolution,
          main_scene_idx,
          file_queue, file_listbox, custom_output_name, threads, folder, output_path,
          started_with, attempted,
          h_pc, wrapper, exit_path, builtins_print, original_print, log_handlers, v_pc,
          v_original_print,
          main_scene, available_resolutions, loaded>>

----------------------------------------------------------------------------
\* Bounds of the model.

\* how far around each threshold the Y and X extents are drawn
Window == 1
\* greatest extent of the T, C and Z axes
MaxExtent == 2
\* greatest number of files in a batch
MaxFiles == 2

----------------------------------------------------------------------------
\* Program constants.

\* _create_pyramid: while min(Y, X) > 256
PyramidFloor == 256
\* _write_univ: if create_pyramid and min(Y, X) > 512
PyramidSkip == 512
\* _create_thumbnail: scale = min(256 / x_size, 256 / y_size)
ThumbMax == 256
\* _write_univ: chunk_size = (1, 1, min(5, Z), min(512, Y), min(512, X))
BaseChunkZ == 5
BaseChunkYX == 512
\* _create_pyramid: chunk_size = (1, 1, 1, min(256, Y), min(256, X))
LevelChunkYX == 256
\* _convert_file: if output_size < 1024
SanityThreshold == 1024

----------------------------------------------------------------------------
\* Arithmetic helpers.

Min(a, b) == IF a <= b THEN a ELSE b
Max(a, b) == IF a >= b THEN a ELSE b

\* number of elements of an array of the given shape (ndarray.size)
RECURSIVE Size(_)
Size(s) == IF s = <<>> THEN 1 ELSE Head(s) * Size(Tail(s))

\* a stride that drops the last, partial step
FloorStride(n, step) == n \div step
\* len(range(0, n, step)): the extent of a[::step] along an axis of extent n
StridedLen(n, step) == (n + step - 1) \div step

\* min(shape[3], shape[4]) of a (T, C, Z, Y, X) shape
MinYX(s) == Min(s[4], s[5])

----------------------------------------------------------------------------
\* _write_univ and its helpers, as functions of the shape.

\* current_data[:, :, :, ::2, ::2]
Downsample(s) == <<s[1], s[2], s[3], StridedLen(s[4], 2), StridedLen(s[5], 2)>>

\* loops that stop one comparison late, or at the skip threshold
LoopAtFloor(s) == MinYX(s) >= PyramidFloor
LoopAboveSkip(s) == MinYX(s) > PyramidSkip
\* the loop condition of _create_pyramid
PyramidContinue(s) == MinYX(s) > PyramidFloor

\* a writer that tests the request against the loop's floor
WantedAboveFloor(cp, s) == cp /\ MinYX(s) > PyramidFloor
\* the condition under which _write_univ calls _create_pyramid
PyramidWanted(cp, s) == cp /\ MinYX(s) > PyramidSkip

BaseChunks(s) == <<1, 1, Min(BaseChunkZ, s[3]), Min(BaseChunkYX, s[4]), Min(BaseChunkYX, s[5])>>
\* a pyramid level chunked like the base level
LevelChunksAsBase(s) == BaseChunks(s)
LevelChunks(s) == <<1, 1, 1, Min(LevelChunkYX, s[4]), Min(LevelChunkYX, s[5])>>

\* _create_thumbnail: scale = min(256/x, 256/y); scale >= 1.0 exactly when
\* max(y, x) <= 256, and int(1 / scale) is max(y, x) // 256 otherwise.
ThumbStep(s) ==
    IF Max(s[4], s[5]) <= ThumbMax THEN 1
    ELSE Max(1, Max(s[4], s[5]) \div ThumbMax)

\* image_data[0, :, 0, ::step_y, ::step_x], shape (C, Y', X')
Thumbnail(s) == <<s[2], StridedLen(s[4], ThumbStep(s)), StridedLen(s[5], ThumbStep(s))>>

----------------------------------------------------------------------------
\* The inputs of the writer.

Near(n) == (n - Window)..(n + Window)
SpatialExtents == (0..Window) \cup Near(PyramidFloor) \cup Near(PyramidSkip)
                  \cup Near(2 * PyramidSkip)
AxisExtents == 0..MaxExtent
\* (one Z extent is deeper than the Z chunk of the base level)
Shapes == {<<t, c, z, y, x>> : t \in AxisExtents, c \in AxisExtents,
                               z \in AxisExtents \cup {BaseChunkZ + 1},
                               y \in SpatialExtents, x \in SpatialExtents}

NoJob == [kind |-> "none"]

\* _load_vsi has not been called
NotLoaded == [loaded |-> FALSE]
\* no array is bound to image_data
NoArray == [bound |-> FALSE]
\* the root attributes of a file before _write_schema
NoStamp == [format |-> "", version |-> "", schema_version |-> ""]

SceneOff ==
    /\ s_pc = "off"
    /\ scenes = <<>>
    /\ scene_info = <<>>
    /\ scene_types = <<>>
    /\ scene_index = -1
    /\ categories = <<>>
    /\ vsi_resolution = [text |-> "Highest image (auto)", target |-> -1]
    /\ main_scene_idx = -1
    /\ main_scene = [width |-> 0, height |-> 0]
    /\ available_resolutions = <<>>
    /\ loaded = <<>>

\* the queue and the output hooks of a GUI that is not part of the run
QueueOff ==
    /\ file_queue = <<>>
    /\ file_listbox = <<>>
    /\ custom_output_name = <<>>
    /\ threads = 0
    /\ folder = {}
    /\ output_path = <<>>
    /\ started_with = <<>>
    /\ attempted = <<>>
    /\ h_pc = "off"
    /\ wrapper = "none"
    /\ exit_path = "none"
    /\ builtins_print = "print"
    /\ original_print = "print"
    /\ log_handlers = {}
    /\ v_pc = "idle"
    /\ v_original_print = "print"

GuiOff ==
    /\ QueueOff
    /\ g_pc = "off"
    /\ file_list = <<>>
    /\ i = 0
    /\ output_format = "univ"
    /\ successful = 0
    /\ failed = 0
    /\ job = NoJob
    /\ is_converting = FALSE

\* greatest resolution_level a caller asks for
MaxLevel == 2

\* no metadata dict, and no Metadata group in the file
NoMetadata == [loaded |-> FALSE]
NoGroup == [written |-> FALSE]

\* 2 ** n
RECURSIVE Pow2(_)
Pow2(n) == IF n = 0 THEN 1 ELSE 2 * Pow2(n - 1)

\* A physical pixel size the reader reports: None, or a number.  Numbers are
\* counted in a unit in which the default 1.0 is DefaultSize.
Missing == [known |-> FALSE, value |-> 0]
Known(v) == [known |-> TRUE, value |-> v]
DefaultSize == 1
SourceSizes == {Missing, Known(0), Known(-2), Known(3)}
NoSizes == [X |-> Missing, Y |-> Missing, Z |-> Missing]

\* the truth value of a size in a conditional expression: None and 0.0 are false
Truthy(v) == v.known /\ v.value # 0

\* (size * 2**resolution_level) if size else 1.0
ScaledOrDefault(v, factor) == IF Truthy(v) THEN v.value * factor ELSE DefaultSize

\* the 'physical_size' entry of the metadata dict of _load_vsi
PhysicalSize(px, rl) ==
    [X |-> ScaledOrDefault(px.X, Pow2(rl)),
     Y |-> ScaledOrDefault(px.Y, Pow2(rl)),
     Z |-> ScaledOrDefault(px.Z, 1),
     unit |-> "um"]

\* the metadata dict of _load_vsi: the dimensions img.dims declares and the
\* physical sizes
Metadata(px, declared, rl) ==
    [dimensions |-> [T |-> declared[1], C |-> declared[2], Z |-> declared[3],
                     Y |-> declared[4], X |-> declared[5]],
     physical_size |-> PhysicalSize(px, rl)]

\* Dimensions attributes taken from the metadata dict
DeclaredDimensionsAttrs(md, sh) ==
    [SizeT |-> md.dimensions.T, SizeC |-> md.dimensions.C, SizeZ |-> md.dimensions.Z,
     SizeY |-> md.dimensions.Y, SizeX |-> md.dimensions.X, DimensionOrder |-> "TCZYX"]

\* the attributes of Metadata/Dimensions
DimensionsAttrs(md, sh) ==
    [SizeT |-> sh[1], SizeC |-> sh[2], SizeZ |-> sh[3], SizeY |-> sh[4], SizeX |-> sh[5],
     DimensionOrder |-> "TCZYX"]

\* the groups _write_metadata creates under Metadata
MetadataGroup(md, sh) ==
    [Dimensions |-> DimensionsAttrs(md, sh),
     PhysicalSize |-> [X |-> md.physical_size.X, Y |-> md.physical_size.Y,
                       Z |-> md.physical_size.Z, Unit |-> md.physical_size.unit]]

\* what _write_schema stores in f.attrs
SchemaStamp == [format |-> "univ", version |-> "1.0", schema_version |-> "1.0"]

\* the order with the schema written first
WriteStepsSchemaFirst == <<"schema", "thumbnail", "metadata", "provenance">>

\* the calls of _write_univ that follow ImageData, in the order of the code
WriteSteps == <<"thumbnail", "metadata", "provenance", "schema">>

\* the position after step p: the next call, or the end of the with block
StepAfter(p) ==
    LET k == CHOOSE j \in 1..Len(WriteSteps) : WriteSteps[j] = p
    IN IF k = Len(WriteSteps) THEN "close" ELSE WriteSteps[k + 1]

\* convert has loaded and normalized image_data and is about to call _write_univ
Init ==
    /\ pc = "write"
    /\ shape \in Shapes
    /\ create_pyramid \in BOOLEAN
    /\ file_exists = FALSE
    /\ datasets = <<>>
    /\ current_data = <<>>
    /\ level = 0
    /\ thumbnail = <<>>
    /\ groups = <<>>
    /\ result = "none"
    /\ decoded = NotLoaded
    /\ image_data = NoArray
    /\ physical_pixel_sizes = NoSizes
    /\ resolution_level = 0
    /\ metadata = Metadata(physical_pixel_sizes, shape, resolution_level)
    /\ meta_group = NoGroup
    /\ schema = NoStamp
    /\ GuiOff
    /\ SceneOff

\* with h5py.File(output_path, 'w') as f: the file is created (or truncated)
OpenFile ==
    /\ pc = "write"
    /\ file_exists' = TRUE
    /\ pc' = "base"
    /\ UNCHANGED <<shape, create_pyramid, datasets, current_data, level, thumbnail,
                   groups, result>>
    /\ UNCHANGED <<decoded, image_data, schema, metadata, meta_group, physical_pixel_sizes,
                   resolution_level>>
    /\ UNCHANGED notWriter

\* f.create_dataset(..., chunks=chunks, ...): h5py raises ValueError when a chunk extent
\* is greater than the extent of the data, and HDF5 refuses a chunk extent of 0.
ChunksFit(s, chunks) ==
    \A k \in 1..Len(s) : chunks[k] > 0 /\ chunks[k] <= s[k]

\* f.create_dataset('ImageData/Resolution_0', ...) and the dset.size == 0 check.
\* An exception leaves the with block when create_dataset refuses the chunk shape
\* (no dataset is created) or when the created dataset has no element (line 487).
WriteBase ==
    /\ pc = "base"
    /\ IF ~ChunksFit(shape, BaseChunks(shape))
       THEN /\ datasets' = <<>>
            /\ groups' = groups
            /\ pc' = "raised"
       ELSE /\ datasets' = <<[level |-> 0, shape |-> shape, chunks |-> BaseChunks(shape)]>>
            /\ groups' = <<"ImageData">>
            /\ pc' = IF Size(shape) = 0 THEN "raised" ELSE "pyramid"
    /\ UNCHANGED <<shape, create_pyramid, file_exists, current_data, level, thumbnail, result>>
    /\ UNCHANGED <<decoded, image_data, schema, metadata, meta_group, physical_pixel_sizes,
                   resolution_level>>
    /\ UNCHANGED notWriter

\* if create_pyramid and min(shape[3], shape[4]) > 512: enter _create_pyramid
PyramidCheck ==
    /\ pc = "pyramid"
    /\ IF PyramidWanted(create_pyramid, shape)
       THEN /\ current_data' = shape
            /\ level' = 1
            /\ pc' = "loop"
       ELSE /\ UNCHANGED <<current_data, level>>
            /\ pc' = WriteSteps[1]
    /\ UNCHANGED <<shape, create_pyramid, file_exists, datasets, thumbnail, groups, result>>
    /\ UNCHANGED <<decoded, image_data, schema, metadata, meta_group, physical_pixel_sizes,
                   resolution_level>>
    /\ UNCHANGED notWriter

\* one iteration of the while loop of _create_pyramid
PyramidStep ==
    /\ pc = "loop"
    /\ PyramidContinue(current_data)
    /\ datasets' = Append(datasets, [level |-> level,
                                     shape |-> Downsample(current_data),
                                     chunks |-> LevelChunks(Downsample(current_data))])
    /\ current_data' = Downsample(current_data)
    /\ level' = level + 1
    /\ UNCHANGED <<pc, shape, create_pyramid, file_exists, thumbnail, groups, result>>
    /\ UNCHANGED <<decoded, image_data, schema, metadata, meta_group, physical_pixel_sizes,
                   resolution_level>>
    /\ UNCHANGED notWriter

\* the loop condition fails: _create_pyramid returns
PyramidExit ==
    /\ pc = "loop"
    /\ ~PyramidContinue(current_data)
    /\ pc' = WriteSteps[1]
    /\ UNCHANGED <<shape, create_pyramid, file_exists, datasets, current_data, level,
                   thumbnail, groups, result>>
    /\ UNCHANGED <<decoded, image_data, schema, metadata, meta_group, physical_pixel_sizes,
                   resolution_level>>
    /\ UNCHANGED notWriter

\* self._create_thumbnail(f, image_data)
CreateThumbnail ==
    /\ pc = "thumbnail"
    /\ thumbnail' = Thumbnail(shape)
    /\ groups' = Append(groups, "Thumbnail")
    /\ pc' = StepAfter("thumbnail")
    /\ UNCHANGED <<shape, create_pyramid, file_exists, datasets, current_data, level, result>>
    /\ UNCHANGED <<decoded, image_data, schema, metadata, meta_group, physical_pixel_sizes,
                   resolution_level>>
    /\ UNCHANGED notWriter

\* self._write_metadata(f, metadata, image_data.shape)
WriteMetadata ==
    /\ pc = "metadata"
    /\ groups' = Append(groups, "Metadata")
    /\ meta_group' = MetadataGroup(metadata, shape)
    /\ pc' = StepAfter("metadata")
    /\ UNCHANGED <<shape, create_pyramid, file_exists, datasets, current_data, level,
                   thumbnail, result>>
    /\ UNCHANGED <<decoded, image_data, schema, metadata, physical_pixel_sizes,
                   resolution_level>>
    /\ UNCHANGED notWriter

\* self._write_provenance(f, metadata)
WriteProvenance ==
    /\ pc = "provenance"
    /\ groups' = Append(groups, "Provenance")
    /\ pc' = StepAfter("provenance")
    /\ UNCHANGED <<shape, create_pyramid, file_exists, datasets, current_data, level,
                   thumbnail, result>>
    /\ UNCHANGED <<decoded, image_data, schema, metadata, meta_group, physical_pixel_sizes,
                   resolution_level>>
    /\ UNCHANGED notWriter

\* self._write_schema(f)
WriteSchema ==
    /\ pc = "schema"
    /\ groups' = Append(groups, "Schema")
    /\ schema' = SchemaStamp
    /\ pc' = StepAfter("schema")
    /\ UNCHANGED <<shape, create_pyramid, file_exists, datasets, current_data, level,
                   thumbnail, result>>
    /\ UNCHANGED <<decoded, image_data, metadata, meta_group, physical_pixel_sizes,
                   resolution_level>>
    /\ UNCHANGED notWriter

\* the with block closes the file and convert returns True
ReturnTrue ==
    /\ pc = "close"
    /\ result' = "True"
    /\ pc' = "done"
    /\ UNCHANGED <<shape, create_pyramid, file_exists, datasets, current_data, level,
                   thumbnail, groups>>
    /\ UNCHANGED <<decoded, image_data, schema, metadata, meta_group, physical_pixel_sizes,
                   resolution_level>>
    /\ UNCHANGED notWriter

\* except Exception as e: logger.error(...); return False.  Nothing removes the file.
ConvertExcept ==
    /\ pc = "raised"
    /\ result' = "False"
    /\ pc' = "done"
    /\ UNCHANGED <<shape, create_pyramid, file_exists, datasets, current_data, level,
                   thumbnail, groups>>
    /\ UNCHANGED <<decoded, image_data, schema, metadata, meta_group, physical_pixel_sizes,
                   resolution_level>>
    /\ UNCHANGED notWriter

Next ==
    \/ OpenFile
    \/ WriteBase
    \/ PyramidCheck
    \/ PyramidStep
    \/ PyramidExit
    \/ CreateThumbnail
    \/ WriteMetadata
    \/ WriteProvenance
    \/ WriteSchema
    \/ ReturnTrue
    \/ ConvertExcept

Spec == Init /\ [][Next]_vars

\* h5py raises inside the with block: a filter that is not available, a write that
\* fails.  The file is closed as it stands and convert's except clause is entered.
WriteAbort ==
    /\ pc \in {"base", "pyramid", "loop", "thumbnail", "metadata", "provenance", "schema"}
    /\ pc' = "raised"
    /\ UNCHANGED <<shape, create_pyramid, file_exists, datasets, current_data, level,
                   thumbnail, groups, result>>
    /\ UNCHANGED <<decoded, image_data, schema, metadata, meta_group, physical_pixel_sizes,
                   resolution_level>>
    /\ UNCHANGED notWriter

NextAbort ==
    \/ Next
    \/ WriteAbort

\* the writer on a disk or with a filter that can fail
SpecAbort == Init /\ [][NextAbort]_vars


----------------------------------------------------------------------------
\* C6 (as amended): each pyramid level has the Y and X extents of the level it was
\* derived from halved and rounded up, ceil(Yk/2) and ceil(Xk/2) (level 0 is the
\* base); this is floor(Yk/2), floor(Xk/2) only for even extents.
C6_LevelsHalveRoundingUp ==
    \A k \in 1..(Len(datasets) - 1) :
        /\ 2 * datasets[k + 1].shape[4] \in {datasets[k].shape[4], datasets[k].shape[4] + 1}
        /\ 2 * datasets[k + 1].shape[5] \in {datasets[k].shape[5], datasets[k].shape[5] + 1}

\* C6 as stated: the extents of level k+1 are floor(Yk/2) and floor(Xk/2).
C6_LevelsHalveRoundingDown ==
    \A k \in 1..(Len(datasets) - 1) :
        /\ datasets[k + 1].shape[4] = datasets[k].shape[4] \div 2
        /\ datasets[k + 1].shape[5] = datasets[k].shape[5] \div 2

\* a level has been derived from a level whose Y and X extents are both odd
C6_Witness ==
    /\ Len(datasets) >= 3
    /\ datasets[2].shape[4] % 2 = 1
    /\ datasets[2].shape[5] % 2 = 1

\* the positions of _write_univ after the pyramid step
AfterPyramid == {"thumbnail", "metadata", "provenance", "schema", "close"}
PyramidOver == pc \in AfterPyramid \/ result = "True"

\* C7: a level is derived from a level exactly when that level's min(Y, X) > 256:
\* every level that has a successor has min(Y, X) > 256, and once the pyramid loop
\* is over the last stored level of a generated pyramid has min(Y, X) <= 256.
C7_DerivedIffAboveFloor ==
    /\ \A k \in 1..(Len(datasets) - 1) : MinYX(datasets[k].shape) > PyramidFloor
    /\ (PyramidOver /\ Len(datasets) > 1) =>
           MinYX(datasets[Len(datasets)].shape) <= PyramidFloor

\* a pyramid of two levels is complete and its last level sits exactly on the floor
C7_Witness ==
    /\ PyramidOver
    /\ Len(datasets) = 3
    /\ MinYX(datasets[3].shape) = PyramidFloor

\* least n with m <= d * 2^n: ceil(log2(m / d)) for m >= d
RECURSIVE CeilLog2Ratio(_, _)
CeilLog2Ratio(m, d) == IF m <= d THEN 0 ELSE 1 + CeilLog2Ratio(m, 2 * d)

\* greatest n with d * 2^n <= m: floor(log2(m / d)) for m >= d
RECURSIVE FloorLog2Ratio(_, _)
FloorLog2Ratio(m, d) == IF m < 2 * d THEN 0 ELSE 1 + FloorLog2Ratio(m, 2 * d)

\* C8 (as amended): when a pyramid is generated, the number of levels written
\* besides the base is ceil(log2(min(Y0, X0) / 256)), which is the spec's
\* floor(log2(min(Y0, X0) / 256)) only when min(Y0, X0) is 256 times a power of two.
C8_LevelCountIsCeilLog2 ==
    (PyramidOver /\ Len(datasets) > 1) =>
        Len(datasets) - 1 = CeilLog2Ratio(MinYX(shape), PyramidFloor)

\* C8 as stated: the number of levels is floor(log2(min(Y0, X0) / 256)).
C8_LevelCountIsFloorLog2 ==
    (PyramidOver /\ Len(datasets) > 1) =>
        Len(datasets) - 1 = FloorLog2Ratio(MinYX(shape), PyramidFloor)

\* a pyramid is complete whose base is not 256 times a power of two
C8_Witness ==
    /\ PyramidOver
    /\ Len(datasets) > 1
    /\ CeilLog2Ratio(MinYX(shape), PyramidFloor) # FloorLog2Ratio(MinYX(shape), PyramidFloor)

AllGroups == <<"ImageData", "Thumbnail", "Metadata", "Provenance", "Schema">>

\* C9: past the pyramid step the container holds Resolution_1 and above exactly
\* when a pyramid was requested and min(Y0, X0) > 512; a skipped pyramid is no
\* error: the write of a non-empty array never raises for it and ends with the
\* thumbnail, metadata, provenance and schema written after Resolution_0 alone.
C9_PyramidIffRequestedAndAboveSkip ==
    /\ PyramidOver =>
           (Len(datasets) > 1 <=> (create_pyramid /\ MinYX(shape) > PyramidSkip))
    /\ (Size(shape) # 0 /\ ~(create_pyramid /\ MinYX(shape) > PyramidSkip)) =>
           /\ pc # "raised"
           /\ result # "False"
           /\ pc = "done" => (Len(datasets) = 1 /\ groups = AllGroups /\ thumbnail # <<>>)

\* a pyramid was requested for a base of min(Y0, X0) = 512 and the write completed
\* with the base level alone
C9_Witness ==
    /\ pc = "done"
    /\ result = "True"
    /\ create_pyramid
    /\ MinYX(shape) = PyramidSkip
    /\ Len(datasets) = 1
    /\ groups = AllGroups

\* C10 as stated: the stored thumbnail has shape (C, Y', X') with max(Y', X') <= 256.
C10_ThumbnailWithin256 ==
    thumbnail # <<>> =>
        /\ Len(thumbnail) = 3
        /\ thumbnail[1] = shape[2]
        /\ Max(thumbnail[2], thumbnail[3]) <= ThumbMax

\* C3 as stated: writing a zero-element array fails, and after the failure no
\* container file exists at the output path.
C3_EmptyWriteLeavesNoFile ==
    (Size(shape) = 0 /\ pc = "done") => (result = "False" /\ ~file_exists)

\* C2 as stated: when convert has returned False the destination path does not
\* exist (it was never created, or was removed before the failure was signalled).
C2_FailedJobLeavesNoDestination ==
    result = "False" => ~file_exists


----------------------------------------------------------------------------
\* FormatConverterGUI: the conversion jobs.
\*
\* An input path is modelled by the branch of the suffix tests it takes
\* (".univ"; ".tif"/".tiff"/".ome"; ".zarr" or a directory; ".vsi"; none of these),
\* a file on disk by whether it exists and its byte size (the aggregate size for
\* a directory).

SrcKinds == {"univ", "ome-tiff", "ome-zarr", "vsi", "other"}
OutputFormats == {"univ", "ome-tiff", "ome-zarr", "vsi"}

NoFile == [exists |-> FALSE, size |-> 0]
SizeValues == {0, SanityThreshold - 1, SanityThreshold, 2 * SanityThreshold}
Files == {[exists |-> TRUE, size |-> n] : n \in SizeValues}

\* The converters imported from univ_to_ometiff, univ_to_omezarr, ometiff_to_univ,
\* omezarr_to_univ and univ_to_vsi_compatible, behind their wrappers: the call
\* succeeds and the output exists, or it fails (convert returned False or raised,
\* and the wrapper raises) and leaves no output.
ExternalOutcomes ==
    {[ok |-> TRUE, out |-> f, exit |-> FALSE] : f \in Files}
    \cup {[ok |-> FALSE, out |-> NoFile, exit |-> FALSE]}

\* VSIToUniv(): _check_dependencies calls sys.exit(1) when aicsimageio cannot be
\* imported, and the SystemExit it raises is no Exception
DependencyExit == [ok |-> FALSE, out |-> NoFile, exit |-> TRUE]

\* _convert_vsi_to_univ: VSIToUniv.convert returned True and the output exists
\* (the wrapper raises otherwise), or the wrapper raises and the output is absent
\* or is the file _write_univ had opened, or the constructor of VSIToUniv exits.
VsiToUnivOutcomes ==
    {[ok |-> TRUE, out |-> f, exit |-> FALSE] : f \in Files}
    \cup {[ok |-> FALSE, out |-> f, exit |-> FALSE] : f \in Files \cup {NoFile}}
    \cup {DependencyExit}

\* _convert_vsi_to_omezarr: the store is written, or RuntimeError is raised before
\* or after Path(output_path).mkdir created the output directory.
VsiToOmeZarrOutcomes ==
    {[ok |-> TRUE, out |-> f, exit |-> FALSE] : f \in Files}
    \cup {[ok |-> FALSE, out |-> f, exit |-> FALSE] : f \in Files \cup {NoFile}}

\* _convert_vsi_to_ometiff: returns only when the output exists and has at least
\* 0.001 MB (1049 bytes); raises RuntimeError otherwise, whatever tifffile wrote.
VsiToOmeTiffOutcomes ==
    {[ok |-> TRUE, out |-> f, exit |-> FALSE] : f \in {g \in Files : g.size > SanityThreshold}}
    \cup {[ok |-> FALSE, out |-> f, exit |-> FALSE] : f \in Files \cup {NoFile}}

AdapterOutcomes(a) ==
    CASE a = "vsi_to_univ" -> VsiToUnivOutcomes
      [] a = "vsi_to_omezarr" -> VsiToOmeZarrOutcomes
      [] a = "vsi_to_ometiff" -> VsiToOmeTiffOutcomes
      [] OTHER -> ExternalOutcomes

AllOutcomes == VsiToUnivOutcomes \cup VsiToOmeZarrOutcomes \cup VsiToOmeTiffOutcomes
               \cup ExternalOutcomes

\* A route is the sequence of adapters a job calls; "reject" stands for the
\* ValueError of _convert_file, <<>> for a job that calls nothing.
Reject == <<"reject">>

\* the if/elif chain of _convert_batch
BatchRoute(src, fmt) ==
    CASE src = "univ" /\ fmt = "ome-tiff" -> <<"univ_to_ometiff">>
      [] src = "univ" /\ fmt = "ome-zarr" -> <<"univ_to_omezarr">>
      [] src = "ome-tiff" /\ fmt = "univ" -> <<"ometiff_to_univ">>
      [] src = "ome-tiff" /\ fmt = "ome-zarr" -> <<"ometiff_to_univ", "univ_to_omezarr">>
      [] src = "ome-zarr" /\ fmt = "univ" -> <<"omezarr_to_univ">>
      [] src = "ome-zarr" /\ fmt = "ome-tiff" -> <<"omezarr_to_univ", "univ_to_ometiff">>
      [] src = "vsi" /\ fmt = "univ" -> <<"vsi_to_univ">>
      [] src = "vsi" /\ fmt = "ome-tiff" -> <<"vsi_to_ometiff">>
      [] src = "vsi" /\ fmt = "ome-zarr" -> <<"vsi_to_omezarr">>
      [] OTHER -> <<>>

\* the if/elif chain of _convert_file
FileRoute(src, fmt) ==
    CASE src = "univ" /\ fmt = "ome-tiff" -> <<"univ_to_ometiff">>
      [] src = "univ" /\ fmt = "ome-zarr" -> <<"univ_to_omezarr">>
      [] src = "ome-tiff" /\ fmt = "univ" -> <<"ometiff_to_univ">>
      [] src = "ome-tiff" /\ fmt = "ome-zarr" -> <<"ometiff_to_univ", "univ_to_omezarr">>
      [] src = "ome-zarr" /\ fmt = "univ" -> <<"omezarr_to_univ">>
      [] src = "ome-zarr" /\ fmt = "ome-tiff" -> <<"omezarr_to_univ", "univ_to_ometiff">>
      [] src = "ome-zarr" /\ fmt = "vsi" -> <<"omezarr_to_univ", "univ_to_vsi">>
      [] src = "vsi" /\ fmt = "univ" -> <<"vsi_to_univ">>
      [] src = "vsi" /\ fmt = "ome-tiff" -> <<"vsi_to_ometiff">>
      [] src = "vsi" /\ fmt = "ome-zarr" -> <<"vsi_to_omezarr">>
      [] OTHER -> Reject

\* Running a route.  o1 and o2 are what the first and the second adapter do.  Of
\* a two-hop route the first adapter writes temp_univ and the second the output;
\* temp_univ is unlinked only on the line after the second call, which an
\* exception from either call skips.
RunRoute(route, o1, o2) ==
    IF route = Reject
    THEN [adapters |-> <<>>, raised |-> TRUE, error |-> "ValueError", failed_hop |-> 0,
          dest |-> NoFile, temp |-> NoFile]
    ELSE IF route = <<>>
    THEN [adapters |-> <<>>, raised |-> FALSE, error |-> "none", failed_hop |-> 0,
          dest |-> NoFile, temp |-> NoFile]
    ELSE IF Len(route) = 1
    THEN [adapters |-> route, raised |-> ~o1.ok,
          error |-> IF o1.ok THEN "none" ELSE IF o1.exit THEN "SystemExit" ELSE "RuntimeError",
          failed_hop |-> IF o1.ok THEN 0 ELSE 1,
          dest |-> o1.out, temp |-> NoFile]
    ELSE IF ~o1.ok
    THEN [adapters |-> <<route[1]>>, raised |-> TRUE, error |-> "RuntimeError",
          failed_hop |-> 1, dest |-> NoFile, temp |-> o1.out]
    ELSE IF ~o2.ok
    THEN [adapters |-> route, raised |-> TRUE, error |-> "RuntimeError",
          failed_hop |-> 2, dest |-> o2.out, temp |-> o1.out]
    ELSE [adapters |-> route, raised |-> FALSE, error |-> "none", failed_hop |-> 0,
          dest |-> o2.out, temp |-> NoFile]

\* the outcomes the adapters of a route can have
NoCall == [ok |-> TRUE, out |-> NoFile, exit |-> FALSE]
RouteOutcomes(route) ==
    {<<o1, o2>> \in (AllOutcomes \cup {NoCall}) \X (AllOutcomes \cup {NoCall}) :
        /\ (Len(route) >= 1 /\ route # Reject) => o1 \in AdapterOutcomes(route[1])
        /\ Len(route) = 2 => o2 \in AdapterOutcomes(route[2])
        /\ (Len(route) = 0 \/ route = Reject) => o1 = NoCall
        /\ Len(route) < 2 => o2 = NoCall}

\* "Validate output was created" of _convert_file: the output exists and has at
\* least 1024 bytes.  (An OME-Zarr output that is not a directory is refused as
\* well; the adapters modelled here write a directory.)
Verify(r) == r.dest.exists /\ ~(r.dest.size < SanityThreshold)

\* except Exception catches every error of an adapter but SystemExit
Caught(r) == r.raised /\ r.error # "SystemExit"

\* the body of the for loop of _convert_batch: no exception means success, an
\* exception that except Exception catches means failure, and SystemExit leaves
\* the loop with neither counted
BatchReport(r) ==
    IF Caught(r) THEN "failed" ELSE IF r.raised THEN "none" ELSE "successful"

\* _convert_file: success is shown only when nothing raised and the check passed
FileReport(r) ==
    IF r.raised /\ ~Caught(r) THEN "none"
    ELSE IF r.raised \/ ~Verify(r) THEN "failed" ELSE "successful"

JobRecord(kind, src, fmt, route, r, reported) ==
    [kind |-> kind, src |-> src, fmt |-> fmt, route |-> route,
     adapters |-> r.adapters, raised |-> r.raised, error |-> r.error,
     failed_hop |-> r.failed_hop, dest |-> r.dest, temp |-> r.temp,
     reported |-> reported]

RECURSIVE SeqsUpTo(_, _)
SeqsUpTo(S, n) ==
    IF n = 0 THEN {<<>>}
    ELSE SeqsUpTo(S, n - 1) \cup {Append(q, x) : q \in SeqsUpTo(S, n - 1), x \in S}

Queues == SeqsUpTo(SrcKinds, MaxFiles) \ {<<>>}

WriterOff ==
    /\ pc = "idle"
    /\ shape = <<>>
    /\ create_pyramid = FALSE
    /\ file_exists = FALSE
    /\ datasets = <<>>
    /\ current_data = <<>>
    /\ level = 0
    /\ thumbnail = <<>>
    /\ groups = <<>>
    /\ result = "none"
    /\ decoded = NotLoaded
    /\ image_data = NoArray
    /\ schema = NoStamp
    /\ metadata = NoMetadata
    /\ meta_group = NoGroup
    /\ physical_pixel_sizes = NoSizes
    /\ resolution_level = 0

\* FormatConverterGUI.__init__
InitGui ==
    /\ g_pc = "idle"
    /\ file_list = <<>>
    /\ i = 0
    /\ output_format = "univ"
    /\ successful = 0
    /\ failed = 0
    /\ job = NoJob
    /\ is_converting = FALSE
    /\ QueueOff
    /\ WriterOff
    /\ SceneOff

\* _start_conversion and _start_batch_conversion with a non-empty queue and an
\* output chosen in the dialog: the worker thread is started on a copy of the queue
StartBatch ==
    /\ g_pc \in {"idle", "batch_done", "file_done"}
    /\ ~is_converting
    /\ \E q \in Queues, fmt \in OutputFormats :
        /\ file_list' = q
        /\ output_format' = fmt
    /\ is_converting' = TRUE
    /\ i' = 0
    /\ successful' = 0
    /\ failed' = 0
    /\ job' = NoJob
    /\ g_pc' = "batch"
    /\ UNCHANGED notGui

\* one iteration of the for loop of _convert_batch.  A SystemExit passes the
\* except clause and ends the worker thread inside the loop: threading drops it
\* silently, and nothing after the loop runs.
BatchJob ==
    /\ g_pc = "batch"
    /\ i < Len(file_list)
    /\ LET src == file_list[i + 1]
           route == BatchRoute(src, output_format)
       IN \E o \in RouteOutcomes(route) :
            LET r == RunRoute(route, o[1], o[2])
                reported == BatchReport(r)
            IN /\ job' = JobRecord("batch", src, output_format, route, r, reported)
               /\ successful' = IF reported = "successful" THEN successful + 1 ELSE successful
               /\ failed' = IF reported = "failed" THEN failed + 1 ELSE failed
               /\ i' = IF reported = "none" THEN i ELSE i + 1
               /\ g_pc' = IF reported = "none" THEN "thread_ended" ELSE g_pc
    /\ UNCHANGED <<file_list, output_format, is_converting>>
    /\ UNCHANGED notGui

\* the end of _convert_batch: summary, button re-enabled, is_converting cleared
BatchFinish ==
    /\ g_pc = "batch"
    /\ i = Len(file_list)
    /\ is_converting' = FALSE
    /\ g_pc' = "batch_done"
    /\ UNCHANGED <<file_list, i, output_format, successful, failed, job>>
    /\ UNCHANGED notGui

\* _convert_file(input_path, output_path, output_format), the whole handler.
\* Nothing in format_converter_gui.py calls it, so it is no step of SpecGui;
\* SpecFile adds it as an operation a caller may invoke while no batch runs.
ConvertFile ==
    /\ g_pc \in {"idle", "batch_done", "file_done"}
    /\ \E src \in SrcKinds, fmt \in OutputFormats :
         LET route == FileRoute(src, fmt)
         IN \E o \in RouteOutcomes(route) :
              LET r == RunRoute(route, o[1], o[2])
              IN job' = JobRecord("file", src, fmt, route, r, FileReport(r))
    /\ is_converting' = FALSE
    /\ g_pc' = "file_done"
    /\ UNCHANGED <<file_list, i, output_format, successful, failed>>
    /\ UNCHANGED notGui

NextGui ==
    \/ StartBatch
    \/ BatchJob
    \/ BatchFinish

\* the GUI as it runs: every job goes through _convert_batch
SpecGui == InitGui /\ [][NextGui]_vars

NextFile ==
    \/ NextGui
    \/ ConvertFile

SpecFile == InitGui /\ [][NextFile]_vars

----------------------------------------------------------------------------
JobEnded == job.kind # "none"

\* C1 as stated: once a two-hop job has ended its intermediate .temp.univ does not
\* exist, whether both hops succeeded or one of them failed, and when the second
\* hop failed the destination does not exist either.
C1_TwoHopLeavesNoIntermediate ==
    (JobEnded /\ Len(job.route) = 2) =>
        /\ ~job.temp.exists
        /\ job.failed_hop = 2 => ~job.dest.exists

\* C4 as stated: a job is reported successful only if the destination exists and
\* its byte size is at least the 1024-byte threshold, on the batch path as well.
C4_SuccessOnlyIfVerified ==
    (JobEnded /\ job.reported = "successful") =>
        (job.dest.exists /\ job.dest.size >= SanityThreshold)

Formats == {"univ", "ome-tiff", "ome-zarr", "vsi"}
DirectPairs == {<<"univ", "ome-tiff">>, <<"ome-tiff", "univ">>, <<"univ", "ome-zarr">>,
                <<"ome-zarr", "univ">>, <<"vsi", "univ">>, <<"vsi", "ome-tiff">>,
                <<"vsi", "ome-zarr">>}

\* C5 as stated: a job between two distinct formats is never rejected and never
\* ends without an adapter having run: it takes the direct adapter for the pairs
\* of the routing table and two hops through an intermediate container otherwise.
C5_EveryPairIsConverted ==
    (JobEnded /\ job.src \in Formats /\ job.src # job.fmt) =>
        /\ job.error # "ValueError"
        /\ job.adapters # <<>>
        /\ Len(job.route) = IF <<job.src, job.fmt>> \in DirectPairs THEN 1 ELSE 2

----------------------------------------------------------------------------
\* Scenes of a multi-scene VSI file: their classification and the choice of the
\* main image, in VSIToUniv and in the GUI.  A scene name is a sequence of
\* characters.

\* greatest number of scenes of a file
MaxScenes == 2

\* total_pixels thresholds of the logged scene type
MainSlidePixels == 100000000
SlideRegionPixels == 10000000

UpperCase == <<"A", "B", "C", "D", "E", "F", "G", "H", "I", "J", "K", "L", "M", "N", "O", "P", "Q", "R", "S", "T", "U", "V", "W", "X", "Y", "Z">>
LowerCase == <<"a", "b", "c", "d", "e", "f", "g", "h", "i", "j", "k", "l", "m", "n", "o", "p", "q", "r", "s", "t", "u", "v", "w", "x", "y", "z">>
Digits == {"0", "1", "2", "3", "4", "5", "6", "7", "8", "9"}
Whitespace == {" "}

\* str.lower(), character by character
LowerChar(c) ==
    IF \E k \in 1..Len(UpperCase) : UpperCase[k] = c
    THEN LowerCase[CHOOSE k \in 1..Len(UpperCase) : UpperCase[k] = c]
    ELSE c
Lower(name) == [k \in 1..Len(name) |-> LowerChar(name[k])]

\* sub in name
Contains(sub, name) ==
    \E k \in 0..(Len(name) - Len(sub)) : SubSeq(name, k + 1, k + Len(sub)) = sub

LabelWord == <<"l", "a", "b", "e", "l">>
MacroWord == <<"m", "a", "c", "r", "o">>
OverviewWord == <<"o", "v", "e", "r", "v", "i", "e", "w">>

\* "label" in name.lower() or "macro" in name.lower()
IsLabelOrMacro(name) ==
    Contains(LabelWord, Lower(name)) \/ Contains(MacroWord, Lower(name))

\* re.match(r'.+\s+#\d+$', name): some '#' at position k is followed by digits only,
\* at least one, up to the end, is preceded by whitespace, and at least one more
\* character stands before that whitespace
MatchesPyramidName(name) ==
    \E k \in 3..(Len(name) - 1) :
        /\ name[k] = "#"
        /\ name[k - 1] \in Whitespace
        /\ \A j \in (k + 1)..Len(name) : name[j] \in Digits

SceneNames == {<<"L", "a", "b", "e", "l", "_", "1">>,
               <<"M", "A", "C", "R", "O">>,
               <<"o", "v", "e", "r", "v", "i", "e", "w", " ", "#", "2">>,
               <<"2", "0", "x", "_", "B", "F">>,
               <<"I", "m", "g", " ", "#", "1", "2">>,
               <<"a", "#", "1">>}
\* width and height of a scene
SceneDims == {<<2000, 1500>>, <<4000, 3000>>, <<40000, 30000>>}
Scenes == {[name |-> n, width |-> d[1], height |-> d[2]] : n \in SceneNames, d \in SceneDims}
SceneLists == SeqsUpTo(Scenes, MaxScenes) \ {<<>>}

\* total_pixels = y_size * x_size, and size = img.shape[-2] * img.shape[-1]
TotalPixels(sc) == sc.height * sc.width

\* the scene_info list built by _analyze_vsi_structure
SceneInfo(scs) ==
    [k \in 1..Len(scs) |-> [index |-> k - 1, name |-> scs[k].name,
                            total_pixels |-> TotalPixels(scs[k])]]

\* the scene type logged by _analyze_vsi_structure
SceneType(name, total_pixels) ==
    IF IsLabelOrMacro(name) THEN "Label/Macro"
    ELSE IF total_pixels > MainSlidePixels THEN "Main Slide Image"
    ELSE IF total_pixels > SlideRegionPixels THEN "Slide Region"
    ELSE "Overview/Thumbnail"

\* max(s, key=total_pixels) with the last of the greatest elements instead of the first
RECURSIVE LastMaxByPixels(_, _)
LastMaxByPixels(s, best) ==
    IF s = <<>> THEN best
    ELSE LastMaxByPixels(Tail(s), IF Head(s).total_pixels >= best.total_pixels
                                  THEN Head(s) ELSE best)

\* max(s, key=lambda s: s['total_pixels']) continued from best: a later element
\* replaces best only if its key is strictly greater
RECURSIVE MaxByPixels(_, _)
MaxByPixels(s, best) ==
    IF s = <<>> THEN best
    ELSE MaxByPixels(Tail(s), IF Head(s).total_pixels > best.total_pixels
                              THEN Head(s) ELSE best)

NotLabelOrMacro(s) == ~IsLabelOrMacro(s.name)

\* VSIToUniv._find_main_image_scene(scene_info)
FindMainImageScene(info) ==
    IF info = <<>> THEN 0
    ELSE LET filtered == SelectSeq(info, NotLabelOrMacro)
             main_scenes == IF filtered = <<>> THEN info ELSE filtered
         IN MaxByPixels(Tail(main_scenes), Head(main_scenes)).index

\* the lists of a name without the overview list
CategoryOfThree(name) ==
    IF Contains(LabelWord, Lower(name)) THEN "label"
    ELSE IF Contains(MacroWord, Lower(name)) THEN "macro"
    ELSE IF MatchesPyramidName(name) THEN "pyramid"
    ELSE "main"

\* the list the GUI's _analyze_vsi_resolutions puts a scene on
Category(name) ==
    IF Contains(LabelWord, Lower(name)) THEN "label"
    ELSE IF Contains(MacroWord, Lower(name)) THEN "macro"
    ELSE IF Contains(OverviewWord, Lower(name)) THEN "overview"
    ELSE IF MatchesPyramidName(name) THEN "pyramid"
    ELSE "main"

\* list.sort(key=total_pixels, reverse=True): a stable sort, so elements of equal
\* size keep their order
RECURSIVE InsertDesc(_, _)
InsertDesc(x, sorted) ==
    IF sorted = <<>> THEN <<x>>
    ELSE IF Head(sorted).total_pixels >= x.total_pixels
         THEN <<Head(sorted)>> \o InsertDesc(x, Tail(sorted))
         ELSE <<x>> \o sorted
RECURSIVE SortDesc(_)
SortDesc(s) ==
    IF s = <<>> THEN <<>>
    ELSE InsertDesc(s[Len(s)], SortDesc(SubSeq(s, 1, Len(s) - 1)))

\* values of the resolution dropdown: the automatic entry, a header row, or an
\* entry that names scene number target
AutoSelection == [text |-> "Highest image (auto)", target |-> -1]
HeaderSelection == [text |-> "--- MAIN IMAGES ---", target |-> -1]
SceneSelection(k) == [text |-> "Scene", target |-> k]
Selections == {AutoSelection, HeaderSelection} \cup {SceneSelection(k) : k \in 0..MaxScenes}

\* FormatConverterGUI._select_vsi_scene: the index of the scene it makes current.
\* A file of one scene is left on its only scene.
SelectVsiScene(scs, selection) ==
    IF Len(scs) <= 1 THEN 0
    ELSE LET scene_sizes == SceneInfo(scs)
             filtered == SelectSeq(scene_sizes, NotLabelOrMacro)
             main_scenes == SortDesc(IF filtered = <<>> THEN scene_sizes ELSE filtered)
         IN IF selection = AutoSelection \/ selection.target < 0
            THEN main_scenes[1].index
            ELSE IF selection.target < Len(scs)
                 THEN selection.target
                 ELSE main_scenes[1].index

\* the file is opened
InitScene ==
    /\ s_pc = "open"
    /\ scenes \in SceneLists
    /\ scene_info = <<>>
    /\ scene_types = <<>>
    /\ scene_index = -1
    /\ categories = <<>>
    /\ vsi_resolution = AutoSelection
    /\ main_scene_idx = -1
    /\ main_scene = [width |-> 0, height |-> 0]
    /\ available_resolutions = <<>>
    /\ loaded = <<>>
    /\ WriterOff
    /\ GuiOff

\* VSIToUniv._analyze_vsi_structure; an exception of the reader gives []
AnalyzeStructure ==
    /\ s_pc = "open"
    /\ \E ok \in BOOLEAN :
         /\ scene_info' = IF ok THEN SceneInfo(scenes) ELSE <<>>
         /\ scene_types' = IF ok
                           THEN [k \in 1..Len(scenes) |->
                                   SceneType(scenes[k].name, TotalPixels(scenes[k]))]
                           ELSE <<>>
    /\ s_pc' = "analyzed"
    /\ UNCHANGED <<scenes, scene_index, categories, vsi_resolution, main_scene_idx>>
    /\ UNCHANGED notScene

\* scene_index = self._find_main_image_scene(scene_info)
FindMain ==
    /\ s_pc = "analyzed"
    /\ scene_index' = FindMainImageScene(scene_info)
    /\ s_pc' = "found"
    /\ UNCHANGED <<scenes, scene_info, scene_types, categories, vsi_resolution, main_scene_idx>>
    /\ UNCHANGED notScene

\* FormatConverterGUI._analyze_vsi_resolutions: the scenes are put on their lists
\* only if the file has more than one, and the dropdown is set to the automatic entry
AnalyzeResolutions ==
    /\ s_pc = "found"
    /\ categories' = IF Len(scenes) > 1
                     THEN [k \in 1..Len(scenes) |-> Category(scenes[k].name)]
                     ELSE <<>>
    /\ vsi_resolution' = AutoSelection
    /\ s_pc' = "listed"
    /\ UNCHANGED <<scenes, scene_info, scene_types, scene_index, main_scene_idx>>
    /\ UNCHANGED notScene

\* the user picks an entry of the dropdown
PickResolution ==
    /\ s_pc = "listed"
    /\ vsi_resolution' \in Selections
    /\ s_pc' = "picked"
    /\ UNCHANGED <<scenes, scene_info, scene_types, scene_index, categories, main_scene_idx>>
    /\ UNCHANGED notScene

\* self._select_vsi_scene(img)
SelectScene ==
    /\ s_pc = "picked"
    /\ main_scene_idx' = SelectVsiScene(scenes, vsi_resolution)
    /\ s_pc' = "selected"
    /\ UNCHANGED <<scenes, scene_info, scene_types, scene_index, categories, vsi_resolution>>
    /\ UNCHANGED notScene

NextScene ==
    \/ AnalyzeStructure
    \/ FindMain
    \/ AnalyzeResolutions
    \/ PickResolution
    \/ SelectScene

SpecScene == InitScene /\ [][NextScene]_vars

\* the scenes among which the main image is looked for
Candidates ==
    IF \E k \in 1..Len(scenes) : ~IsLabelOrMacro(scenes[k].name)
    THEN {k \in 1..Len(scenes) : ~IsLabelOrMacro(scenes[k].name)}
    ELSE 1..Len(scenes)

\* the scene with the greatest pixel count among the candidates, the lowest on ties
Greatest ==
    CHOOSE k \in Candidates :
        \A j \in Candidates :
            \/ TotalPixels(scenes[j]) < TotalPixels(scenes[k])
            \/ TotalPixels(scenes[j]) = TotalPixels(scenes[k]) /\ k <= j

\* C11: for a non-empty scene list _find_main_image_scene returns the index of the
\* scene with the greatest pixel count among the scenes that are not label or macro
\* (all scenes if there is no other), the lowest index on ties, and the GUI's
\* automatic selection makes the same scene current.
C11_SelectorsPickGreatestScene ==
    /\ (s_pc \notin {"open", "analyzed"} /\ scene_info # <<>>)
          => scene_index = Greatest - 1
    /\ (s_pc = "selected" /\ vsi_resolution = AutoSelection)
          => /\ main_scene_idx = Greatest - 1
             /\ scene_info # <<>> => main_scene_idx = scene_index

\* two candidates tie on the greatest pixel count and both selectors took the first
C11_Witness ==
    /\ s_pc = "selected"
    /\ vsi_resolution = AutoSelection
    /\ scene_info # <<>>
    /\ Len(scenes) = MaxScenes
    /\ \E j, k \in Candidates :
          j # k /\ TotalPixels(scenes[j]) = TotalPixels(scenes[k]) /\ Greatest = Min(j, k)
    /\ main_scene_idx = scene_index

HasWord(w, name) == Contains(w, Lower(name))

\* the class the three-way rule gives a name: label or macro, else pyramid-level
\* candidate, else main
ThreeWayKind(name) ==
    IF HasWord(LabelWord, name) \/ HasWord(MacroWord, name) THEN "label/macro"
    ELSE IF MatchesPyramidName(name) THEN "pyramid"
    ELSE "main"

\* the GUI's lists with the label and macro lists taken together
Merged(category) == IF category \in {"label", "macro"} THEN "label/macro" ELSE category

\* C12 (as stated): every scene is classified by name alone as label or macro,
\* else pyramid-level candidate if the name matches '<base-name> #<integer>', else
\* main, in the GUI as in VSIToUniv, whatever its pixel count.
C12_ClassifiedInThreeKindsByName ==
    /\ categories # <<>>
          => \A k \in 1..Len(scenes) : Merged(categories[k]) = ThreeWayKind(scenes[k].name)
    /\ scene_types # <<>>
          => \A j, k \in 1..Len(scenes) :
                scenes[j].name = scenes[k].name => scene_types[j] = scene_types[k]

\* C12 (amended): the GUI puts every scene of a multi-scene file on a list by its
\* name alone: label, else macro, else overview, else pyramid-level candidate if the
\* name matches '<base-name> #<integer>', else main; two scenes of the same name are
\* on the same list whatever their pixel counts.  The scene type logged by VSIToUniv
\* is Label/Macro by the same name test and follows the pixel count otherwise.
C12_ClassifiedByNameWithOverview ==
    /\ categories # <<>>
          => /\ \A k \in 1..Len(scenes) :
                   LET n == scenes[k].name
                       c == categories[k]
                       l == HasWord(LabelWord, n)
                       m == HasWord(MacroWord, n)
                       o == HasWord(OverviewWord, n)
                   IN /\ c = "label" <=> l
                      /\ c = "macro" <=> (~l /\ m)
                      /\ c = "overview" <=> (~l /\ ~m /\ o)
                      /\ c = "pyramid" <=> (~l /\ ~m /\ ~o /\ MatchesPyramidName(n))
                      /\ c = "main" <=> (~l /\ ~m /\ ~o /\ ~MatchesPyramidName(n))
             /\ \A j, k \in 1..Len(scenes) :
                   scenes[j].name = scenes[k].name => categories[j] = categories[k]
    /\ scene_types # <<>>
          => \A k \in 1..Len(scenes) :
                LET n == scenes[k].name
                    px == scenes[k].width * scenes[k].height
                IN /\ scene_types[k] = "Label/Macro"
                         <=> (HasWord(LabelWord, n) \/ HasWord(MacroWord, n))
                   /\ scene_types[k] = "Main Slide Image"
                         => px > MainSlidePixels
                   /\ scene_types[k] = "Slide Region"
                         => (px > SlideRegionPixels /\ px <= MainSlidePixels)
                   /\ scene_types[k] = "Overview/Thumbnail"
                         => px <= SlideRegionPixels

\* a file with an overview scene whose name has the pyramid-level form next to a
\* pyramid-level candidate, and two scene types that differ by pixel count only
C12_Witness ==
    /\ s_pc = "listed"
    /\ Len(scenes) = 2
    /\ MatchesPyramidName(scenes[1].name) /\ categories[1] = "overview"
    /\ categories[2] = "pyramid"
    /\ scene_types = <<"Overview/Thumbnail", "Main Slide Image">>

----------------------------------------------------------------------------
\* VSIToUniv.convert from the call of _load_vsi to the call of _write_univ: the
\* decoded array and the rank dispatch that brings it to (T, C, Z, Y, X).  Here an array is a
\* shape, the order of its axes as the reader declares it (img.dims) and its
\* elements in C order; an element is named by its position in the decoded array.

\* greatest extent of an axis of a decoded array
MaxDecoded == 2

DecodedExtents == {0, 1, MaxDecoded}
Ranks == 1..7

\* _load_vsi returned None, {}
None == [none |-> TRUE]

IsArray(a) == a \notin {NotLoaded, NoArray, None}

\* the axis order the reader declares for an array of rank r
AxisOrders(r) ==
    IF r = 2 THEN {"YX"}
    ELSE IF r = 3 THEN {"CYX"}
    ELSE IF r = 4 THEN {"TCYX", "ZCYX"}
    ELSE IF r = 5 THEN {"TCZYX"}
    ELSE IF r = 6 THEN {"TCZYXS"}
    ELSE {"?"}

\* the arrays _load_vsi can return
DecodedArrays ==
    UNION {{[shape |-> sh, axes |-> ax, data |-> [p \in 1..Size(sh) |-> p]] :
               sh \in [1..r -> DecodedExtents], ax \in AxisOrders(r)} : r \in Ranks}

\* C-order position (from 0) of the element at index idx (from 0) in an array of shape sh
RECURSIVE Ravel(_, _)
Ravel(sh, idx) ==
    IF sh = <<>> THEN 0
    ELSE Ravel(SubSeq(sh, 1, Len(sh) - 1), SubSeq(idx, 1, Len(idx) - 1)) * sh[Len(sh)]
         + idx[Len(idx)]

\* the index (from 0) of the element at C-order position p (from 0)
RECURSIVE Unravel(_, _)
Unravel(sh, p) ==
    IF sh = <<>> THEN <<>>
    ELSE Append(Unravel(SubSeq(sh, 1, Len(sh) - 1), p \div sh[Len(sh)]), p % sh[Len(sh)])

\* a[idx]
At(a, idx) == a.data[Ravel(a.shape, idx) + 1]

\* a.transpose(perm): axis k of the result is axis perm[k] of a (axes counted from 1)
Transpose(a, perm) ==
    LET sh == [k \in 1..Len(perm) |-> a.shape[perm[k]]]
        Source(idx) == [j \in 1..Len(perm) |->
                          idx[CHOOSE k \in 1..Len(perm) : perm[k] = j]]
    IN [shape |-> sh, axes |-> a.axes,
        data |-> [p \in 1..Size(sh) |-> At(a, Source(Unravel(sh, p - 1)))]]

\* a.reshape(sh): the same elements in the same C order
Reshape(a, sh) == [shape |-> sh, axes |-> a.axes, data |-> a.data]

\* a[..., np.newaxis, ...]: axes of extent 1 at the positions of at (counted from 1
\* in the result), the elements unchanged
RECURSIVE ExpandShape(_, _, _)
ExpandShape(sh, at, k) ==
    IF sh = <<>> /\ k \notin at THEN <<>>
    ELSE IF k \in at THEN <<1>> \o ExpandShape(sh, at, k + 1)
    ELSE <<Head(sh)>> \o ExpandShape(Tail(sh), at, k + 1)

\* the positions of the np.newaxis entries of the index expression, by rank, with
\* the two leading axes taken as new for rank 3
NewAxesLeading(r) ==
    IF r = 2 THEN {1, 2, 3} ELSE IF r = 3 THEN {1, 2} ELSE {3}

\* the positions of the np.newaxis entries of the index expression, by rank
NewAxes(r) ==
    IF r = 2 THEN {1, 2, 3} ELSE IF r = 3 THEN {1, 3} ELSE {3}

\* transpose(0, 1, 5, 2, 3, 4) with the S axis moved before C
FoldPermSFirst == <<1, 6, 2, 3, 4, 5>>

\* transpose(0, 1, 5, 2, 3, 4), axes counted from 1
FoldPerm == <<1, 2, 6, 3, 4, 5>>

\* image_data.transpose(0, 1, 5, 2, 3, 4).reshape(t, c*s, z, y, x)
Fold(a) ==
    LET sh == a.shape
    IN Reshape(Transpose(a, FoldPerm), <<sh[1], sh[2] * sh[6], sh[3], sh[4], sh[5]>>)

\* the rank dispatch with ndim >= 4 given a new axis
NormalizeFromFour(a) ==
    LET r == Len(a.shape)
    IN IF r = 6 THEN [Fold(a) EXCEPT !.axes = "TCZYX"]
       ELSE [shape |-> ExpandShape(a.shape, NewAxes(r), 1), axes |-> "TCZYX", data |-> a.data]

\* the rank dispatch of convert for ndim in 2..6
Normalize(a) ==
    LET r == Len(a.shape)
    IN IF r = 5 THEN a
       ELSE IF r = 6 THEN [Fold(a) EXCEPT !.axes = "TCZYX"]
       ELSE [shape |-> ExpandShape(a.shape, NewAxes(r), 1), axes |-> "TCZYX", data |-> a.data]

LoadNeverFails(d) == FALSE
\* if image_data is None
LoadFailed(d) == d = None

\* convert is about to call _load_vsi; the output path may hold an older file
InitConvert ==
    /\ pc = "load"
    /\ shape = <<>>
    /\ create_pyramid \in BOOLEAN
    /\ file_exists \in BOOLEAN
    /\ datasets = <<>>
    /\ current_data = <<>>
    /\ level = 0
    /\ thumbnail = <<>>
    /\ groups = <<>>
    /\ result = "none"
    /\ decoded = NotLoaded
    /\ image_data = NoArray
    /\ metadata = NoMetadata
    /\ meta_group = NoGroup
    /\ physical_pixel_sizes = NoSizes
    /\ resolution_level = 0
    /\ schema = NoStamp
    /\ GuiOff
    /\ SceneOff

\* image_data, metadata = self._load_vsi(input_path, scene_index, resolution_level)
LoadVsi ==
    /\ pc = "load"
    /\ decoded' \in DecodedArrays \cup {None}
    /\ pc' = "loaded"
    /\ UNCHANGED <<shape, create_pyramid, file_exists, datasets, current_data, level,
                   thumbnail, groups, result, image_data, schema>>
    /\ UNCHANGED <<metadata, meta_group, physical_pixel_sizes,
                   resolution_level>>
    /\ UNCHANGED notWriter

\* if image_data is None: return False
LoadCheck ==
    /\ pc = "loaded"
    /\ IF LoadFailed(decoded)
       THEN /\ result' = "False"
            /\ pc' = "done"
       ELSE /\ result' = result
            /\ pc' = "normalize"
    /\ UNCHANGED <<shape, create_pyramid, file_exists, datasets, current_data, level,
                   thumbnail, groups, decoded, image_data, schema>>
    /\ UNCHANGED <<metadata, meta_group, physical_pixel_sizes,
                   resolution_level>>
    /\ UNCHANGED notWriter

\* the if / elif chain on image_data.ndim, then the call of _write_univ.  The else
\* branch returns False; reading ndim of None raises.
NormalizeData ==
    /\ pc = "normalize"
    /\ IF ~IsArray(decoded)
       THEN /\ pc' = "raised"
            /\ UNCHANGED <<image_data, shape, result>>
       ELSE IF Len(decoded.shape) \in 2..6
       THEN /\ image_data' = Normalize(decoded)
            /\ shape' = image_data'.shape
            /\ pc' = "write"
            /\ result' = result
       ELSE /\ result' = "False"
            /\ pc' = "done"
            /\ UNCHANGED <<image_data, shape>>
    /\ UNCHANGED <<create_pyramid, file_exists, datasets, current_data, level,
                   thumbnail, groups, decoded, schema>>
    /\ UNCHANGED <<metadata, meta_group, physical_pixel_sizes,
                   resolution_level>>
    /\ UNCHANGED notWriter

\* convert up to the call of _write_univ, where Spec takes over
NextConvert ==
    \/ LoadVsi
    \/ LoadCheck
    \/ NormalizeData

SpecConvert == InitConvert /\ [][NextConvert]_vars

\* the rank of the decoded array
Rank == Len(decoded.shape)
\* the decoded array went through the rank dispatch
Normalized == IsArray(decoded) /\ image_data # NoArray

\* C13: for a decoded array of rank 2 to 6 the array handed to the writer has rank 5
\* and ends with the Y and X extents of the source; rank 2 gives (1, 1, 1, Y, X) and
\* rank 3 gives (1, C, 1, Y, X).
C13_NormalizedToFiveAxes ==
    Normalized =>
        LET src == decoded.shape
            out == image_data.shape
        IN /\ Rank \in 2..6
           /\ shape = out
           /\ Len(out) = 5
           /\ Rank \in 2..5 => (out[4] = src[Rank - 1] /\ out[5] = src[Rank])
           /\ Rank = 6 => (out[4] = src[4] /\ out[5] = src[5])
           /\ Rank = 2 => out = <<1, 1, 1, src[1], src[2]>>
           /\ Rank = 3 => out = <<1, src[1], 1, src[2], src[3]>>
           /\ Rank = 4 => \E k \in 1..3 : out[k] = 1

\* a rank-3 array with more than one channel was handed to the writer
C13_Witness ==
    /\ Normalized
    /\ Rank = 3
    /\ decoded.shape = <<MaxDecoded, 1, MaxDecoded>>
    /\ pc = "write"

\* C14: a rank-4 array declared (T, C, Y, X) becomes (T, C, 1, Y, X) and one declared
\* (Z, C, Y, X) becomes (1, C, Z, Y, X): the Z extent ends on axis Z, never on axis T.
C14_RankFourKeepsZOnZ ==
    (Normalized /\ Rank = 4) =>
        LET src == decoded.shape
            out == image_data.shape
        IN /\ decoded.axes = "TCYX" => out = <<src[1], src[2], 1, src[3], src[4]>>
           /\ decoded.axes = "ZCYX" => out = <<1, src[2], src[1], src[3], src[4]>>

\* the index sets of an array of shape sh, indices from 0
Indices(sh) == {idx \in [1..Len(sh) -> 0..MaxDecoded] : \A k \in 1..Len(sh) : idx[k] < sh[k]}

\* C15: a rank-6 array (T, C, Z, Y, X, S) is folded into (T, C*S, Z, Y, X) with
\* output[t, c*S + s, z, y, x] = input[t, c, z, y, x, s] for every index.
C15_FoldIsLossless ==
    (Normalized /\ Rank = 6) =>
        LET src == decoded.shape
        IN /\ image_data.shape = <<src[1], src[2] * src[6], src[3], src[4], src[5]>>
           /\ \A idx \in Indices(src) :
                 At(image_data, <<idx[1], idx[2] * src[6] + idx[6], idx[3], idx[4], idx[5]>>)
                    = At(decoded, idx)

\* a rank-6 array with several channels and several samples, no axis empty
C15_Witness ==
    /\ Normalized
    /\ Rank = 6
    /\ decoded.shape[2] = MaxDecoded /\ decoded.shape[6] = MaxDecoded
    /\ decoded.shape[5] = MaxDecoded
    /\ Size(decoded.shape) > 0

\* C16: a rank-5 array leaves the rank dispatch unchanged, shape and elements, and
\* the dispatch applied to any of its results gives that result again.
C16_RankFiveUnchanged ==
    Normalized =>
        /\ Rank = 5 => image_data = decoded
        /\ Normalize(image_data) = image_data

\* a rank-5 array whose extents differ went through the dispatch
C16_Witness ==
    /\ Normalized
    /\ Rank = 5
    /\ decoded.shape = <<1, MaxDecoded, 1, MaxDecoded, 1>>
    /\ image_data = decoded

\* the decoded array has an axis of extent zero
HasEmptyAxis == \E k \in 1..Rank : decoded.shape[k] = 0

\* C17: a decoded array of rank outside 2..6, or with an axis of extent zero, is
\* rejected by the rank dispatch: convert returns False and never calls the writer.
C17_BadShapeNeverReachesWriter ==
    (IsArray(decoded) /\ (Rank \notin 2..6 \/ HasEmptyAxis)) =>
        /\ pc # "write"
        /\ image_data = NoArray
        /\ pc = "done" => result = "False"

\* C18: when _load_vsi returns no data, convert returns False without entering the
\* rank dispatch or the writer, and the output path is left as it was.
C18_LoadFailureTouchesNothing ==
    /\ [](decoded = None =>
            /\ pc \in {"loaded", "done"}
            /\ pc = "done" => result = "False"
            /\ image_data = NoArray /\ shape = <<>>
            /\ datasets = <<>> /\ groups = <<>> /\ schema = NoStamp)
    /\ [][decoded = None => file_exists' = file_exists]_vars

\* convert returned False after a failed load, an older file still at the output path
C18_Witness ==
    /\ decoded = None
    /\ pc = "done"
    /\ result = "False"
    /\ file_exists

----------------------------------------------------------------------------
\* C19: in a batch every file whose converter raises or returns False is counted
\* failed and never successful, every file is gone through once, in queue order and
\* whatever happened to the files before it, and once the worker is through
\* successful + failed is the number of files.
C19_EveryFailureCounted ==
    /\ (JobEnded /\ job.kind = "batch" /\ job.raised) => job.reported = "failed"
    /\ g_pc \in {"batch", "batch_done", "thread_ended"} => successful + failed = i
    /\ g_pc \in {"batch_done", "thread_ended"}
          => /\ i = Len(file_list)
             /\ successful + failed = Len(file_list)

----------------------------------------------------------------------------
\* C20: the writer creates ImageData (Resolution_0, then the pyramid levels in
\* increasing order), then Thumbnail, Metadata, Provenance and the schema stamp
\* (format 'univ', version '1.0', schema_version '1.0'), in this order; the stamp is
\* written last, so a write aborted at an earlier step leaves no stamp.
C20_GroupsInOrderSchemaLast ==
    /\ groups = SubSeq(AllGroups, 1, Len(groups))
    /\ \A k \in 1..Len(datasets) : datasets[k].level = k - 1
    /\ pc \in {"pyramid", "loop"} => groups = <<"ImageData">>
    /\ Len(groups) > 1 => (datasets # <<>> /\ pc \notin {"base", "pyramid", "loop"})
    /\ schema # NoStamp <=> groups = AllGroups
    /\ schema # NoStamp => schema = SchemaStamp
    /\ result = "False" => (schema = NoStamp /\ groups # AllGroups)
    /\ result = "True" => groups = AllGroups

\* a write with a pyramid that was aborted after the provenance group
C20_Witness ==
    /\ result = "False"
    /\ Len(datasets) > 1
    /\ groups = <<"ImageData", "Thumbnail", "Metadata", "Provenance">>
    /\ schema = NoStamp

----------------------------------------------------------------------------
\* The metadata of a conversion: the dict _load_vsi builds from what the reader
\* reports, and the Metadata group the writer makes of it.  The array is given by
\* the shape convert hands to the writer; SpecConvert follows how it gets there.

\* shapes handed to the writer: an empty array, a single pixel, and a plane large
\* enough for a pyramid
MetaShapes == {<<0, 1, 1, 1, 1>>, <<1, 1, 1, 1, 1>>, <<1, 2, 1, 513, 600>>}

\* convert is inside _load_vsi, the data read
InitMeta ==
    /\ pc = "extract"
    /\ shape \in MetaShapes
    /\ create_pyramid \in BOOLEAN
    /\ file_exists = FALSE
    /\ datasets = <<>>
    /\ current_data = <<>>
    /\ level = 0
    /\ thumbnail = <<>>
    /\ groups = <<>>
    /\ result = "none"
    /\ decoded = NotLoaded
    /\ image_data = NoArray
    /\ schema = NoStamp
    /\ metadata = NoMetadata
    /\ meta_group = NoGroup
    /\ physical_pixel_sizes \in [{"X", "Y", "Z"} -> SourceSizes]
    /\ resolution_level \in 0..MaxLevel
    /\ GuiOff
    /\ SceneOff

\* "Extract metadata" of _load_vsi; convert then goes on to the writer
ExtractMetadata ==
    /\ pc = "extract"
    /\ \E declared \in MetaShapes :
          metadata' = Metadata(physical_pixel_sizes, declared, resolution_level)
    /\ pc' = "write"
    /\ UNCHANGED <<shape, create_pyramid, file_exists, datasets, current_data, level,
                   thumbnail, groups, result, decoded, image_data, schema, meta_group,
                   physical_pixel_sizes, resolution_level>>
    /\ UNCHANGED notWriter

NextMeta ==
    \/ ExtractMetadata
    \/ Next

SpecMeta == InitMeta /\ [][NextMeta]_vars

\* C21: in every container written successfully the attributes SizeT, SizeC, SizeZ,
\* SizeY, SizeX of Metadata/Dimensions are the five extents of Resolution_0, in this
\* order, whatever dimensions the metadata dict declares.
C21_DimensionsAreStoredExtents ==
    result = "True" =>
        LET stored == datasets[1].shape
            d == meta_group.Dimensions
        IN /\ datasets[1].level = 0
           /\ <<d.SizeT, d.SizeC, d.SizeZ, d.SizeY, d.SizeX>> = stored

\* a container was written whose metadata dict declared other dimensions
C21_Witness ==
    /\ result = "True"
    /\ datasets[1].shape = <<1, 2, 1, 513, 600>>
    /\ metadata.dimensions.X = 1
    /\ meta_group.Dimensions.SizeX = 600

\* C22: the physical sizes X, Y, Z recorded are strictly positive for every value
\* the source reports and every resolution level; an unknown size is recorded as
\* 1.0 and the unit is always recorded.
C22_PhysicalSizesPositive ==
    /\ metadata # NoMetadata
          => /\ metadata.physical_size.X > 0
             /\ metadata.physical_size.Y > 0
             /\ metadata.physical_size.Z > 0
             /\ metadata.physical_size.unit # ""
             /\ \A a \in {"X", "Y", "Z"} :
                   ~physical_pixel_sizes[a].known => metadata.physical_size[a] = DefaultSize
    /\ meta_group # NoGroup
          => /\ meta_group.PhysicalSize.X > 0
             /\ meta_group.PhysicalSize.Y > 0
             /\ meta_group.PhysicalSize.Z > 0
             /\ meta_group.PhysicalSize.Unit # ""

\* C23: every stored dataset has the chunk shape of its level: the base level
\* (1, 1, min(5, Z), min(512, Y), min(512, X)), a pyramid level
\* (1, 1, 1, min(256, Y), min(256, X)); no chunk extent exceeds the extent of its
\* dataset, and an array without an empty axis is stored.
C23_ChunksWithinExtents ==
    /\ \A n \in 1..Len(datasets) :
          LET d == datasets[n]
              Z == d.shape[3]
              Y == d.shape[4]
              X == d.shape[5]
          IN /\ d.chunks = IF d.level = 0
                            THEN <<1, 1, Min(5, Z), Min(512, Y), Min(512, X)>>
                            ELSE <<1, 1, 1, Min(256, Y), Min(256, X)>>
             /\ \A k \in 1..5 : d.chunks[k] <= d.shape[k]
    /\ (pc \notin {"write", "base"} /\ Size(shape) > 0) =>
          (Len(datasets) >= 1 /\ datasets[1].level = 0 /\ datasets[1].shape = shape)

\* a deep stack with two pyramid levels has been written
C23_Witness ==
    /\ result = "True"
    /\ Len(datasets) = 3
    /\ datasets[1].chunks = <<1, 1, 5, 512, 512>>
    /\ datasets[1].shape[3] = 6
    /\ datasets[3].chunks[3] = 1
    /\ datasets[3].chunks[4] = 256

-----------------------------------------------------------------------------
\* The file queue of the GUI, the Convert button and the worker thread of a batch.
\* A path is a directory and a file name; a name is the sequence of its parts,
\* "s.ome.tif" being <<"s", ".ome", ".tif">>, and two names are the same string
\* exactly when their sequences are equal.

QueuePaths ==
    {[dir |-> "a", name |-> <<"s", ".vsi">>],
     [dir |-> "b", name |-> <<"s", ".vsi">>],
     [dir |-> "a", name |-> <<"n", ".txt">>]}

\* what one drop or one dialog hands over: some paths, possibly one of them twice
Items == SeqsUpTo(QueuePaths, 2) \ {<<>>}

Last(q) == q[Len(q)]
\* Path.stem: the name without its last suffix
Stem(name) == SubSeq(name, 1, Len(name) - 1)

\* _is_supported_file
IsSupported(name) ==
    \/ Last(name) \in {".univ", ".vsi", ".tif", ".tiff", ".zarr"}
    \/ (Len(name) >= 3 /\ name[Len(name) - 1] = ".ome" /\ Last(name) \in {".tif", ".tiff"})

\* the suffix tests of the batch loop (lines 970-996), in their order
SrcKind(name) ==
    IF Last(name) = ".univ" THEN "univ"
    ELSE IF Last(name) \in {".tif", ".tiff"} \/ \E k \in 1..Len(name) : name[k] = ".ome"
    THEN "ome-tiff"
    ELSE IF Last(name) = ".zarr" THEN "ome-zarr"
    ELSE IF Last(name) = ".vsi" THEN "vsi"
    ELSE "other"

\* the loop of Enqueue without the membership test
RECURSIVE EnqueueAll(_, _)
EnqueueAll(st, items) ==
    IF items = <<>> THEN st
    ELSE EnqueueAll(<<Append(st[1], Head(items)), Append(st[2], Head(items).name)>>,
                    Tail(items))

\* the loop "if str(path) not in self.file_queue: append; listbox.insert(END, name)"
\* run over items; st is the pair of the queue and the listbox
RECURSIVE Enqueue(_, _)
Enqueue(st, items) ==
    IF items = <<>> THEN st
    ELSE LET p == Head(items)
             seen == \E k \in 1..Len(st[1]) : st[1][k] = p
         IN Enqueue(IF seen THEN st ELSE <<Append(st[1], p), Append(st[2], p.name)>>,
                    Tail(items))

\* the supported files among items, in order
RECURSIVE Supported(_)
Supported(items) ==
    IF items = <<>> THEN <<>>
    ELSE (IF IsSupported(Head(items).name) THEN <<Head(items)>> ELSE <<>>)
         \o Supported(Tail(items))

\* extension of the output for a format (lines 940-947)
Ext(fmt) ==
    IF fmt = "ome-zarr" THEN <<".zarr">>
    ELSE IF fmt \in {"ome-tiff", "vsi"} THEN <<".ome", ".tif">>
    ELSE <<".univ">>

\* f"{stem}_converted{ext}" for n = 0 and f"{stem}_converted_{n}{ext}" for n > 0
OutputName(stem, n, ext) ==
    stem \o <<"_converted">> \o (IF n = 0 THEN <<>> ELSE <<"_", n>>) \o ext

\* the base name whether or not it exists
ChooseOutputUnchecked(stem, ext, existing) == OutputName(stem, 0, ext)

\* lines 950-958: the base name if it does not exist, else the first name with a
\* counter 1, 2, ... that does not exist
ChooseOutput(stem, ext, existing) ==
    LET free == {n \in 0..Cardinality(existing) : OutputName(stem, n, ext) \notin existing}
    IN OutputName(stem, CHOOSE n \in free : \A m \in free : n <= m, ext)

\* output_path.with_suffix('.temp.univ')
TempName(name) == Stem(name) \o <<".temp.univ">>

\* a copy that misses the first element
CopyOfTail(q) == Tail(q)
\* list.copy()
Copy(q) == [k \in 1..Len(q) |-> q[k]]

\* names the dialog of a single-file batch returns: the default name or another
CustomNames(stem, ext) == {OutputName(stem, 0, ext), <<"out">> \o ext}

\* a batch is started while the output folder holds at most this many names
MaxOutputs == 1

\* FormatConverterGUI.__init__ with an output folder that is empty or holds the
\* output of an earlier run
InitQueue ==
    /\ g_pc = "idle"
    /\ file_list = <<>>
    /\ i = 0
    /\ output_format = "univ"
    /\ successful = 0
    /\ failed = 0
    /\ job = NoJob
    /\ is_converting = FALSE
    /\ file_queue = <<>>
    /\ file_listbox = <<>>
    /\ custom_output_name = <<>>
    /\ threads = 0
    /\ folder \in {{OutputName(<<"s">>, n, Ext("univ")) : n \in 0..(k - 1)} : k \in 0..1}
    /\ output_path = <<>>
    /\ started_with = <<>>
    /\ attempted = <<>>
    /\ h_pc = "off"
    /\ wrapper = "none"
    /\ exit_path = "none"
    /\ builtins_print = "print"
    /\ original_print = "print"
    /\ log_handlers = {}
    /\ v_pc = "idle"
    /\ v_original_print = "print"
    /\ WriterOff
    /\ SceneOff

\* _on_drop: the supported files among the dropped files, and the supported files
\* of the dropped folders, are queued unless queued already
OnDrop ==
    /\ g_pc # "off"
    /\ \E items \in Items :
         LET st == Enqueue(<<file_queue, file_listbox>>, Supported(items))
         IN Len(st[1]) <= MaxFiles /\ file_queue' = st[1] /\ file_listbox' = st[2]
    /\ UNCHANGED <<custom_output_name, threads, folder, output_path, started_with, attempted>>
    /\ UNCHANGED <<gvars, notQueue>>

\* _browse_files: every file chosen in the dialog is queued unless queued already
BrowseFiles ==
    /\ g_pc # "off"
    /\ \E items \in Items :
         LET st == Enqueue(<<file_queue, file_listbox>>, items)
         IN Len(st[1]) <= MaxFiles /\ file_queue' = st[1] /\ file_listbox' = st[2]
    /\ UNCHANGED <<custom_output_name, threads, folder, output_path, started_with, attempted>>
    /\ UNCHANGED <<gvars, notQueue>>

\* _browse_folder: the supported files _scan_folder_for_files found in the folder
BrowseFolder ==
    /\ g_pc # "off"
    /\ \E items \in Items :
         LET st == Enqueue(<<file_queue, file_listbox>>, Supported(items))
         IN Len(st[1]) <= MaxFiles /\ file_queue' = st[1] /\ file_listbox' = st[2]
    /\ UNCHANGED <<custom_output_name, threads, folder, output_path, started_with, attempted>>
    /\ UNCHANGED <<gvars, notQueue>>

\* _clear_file_list
ClearFileList ==
    /\ g_pc # "off"
    /\ file_queue' = <<>>
    /\ file_listbox' = <<>>
    /\ UNCHANGED <<custom_output_name, threads, folder, output_path, started_with, attempted>>
    /\ UNCHANGED <<gvars, notQueue>>

\* the body of _start_batch_conversion once the dialog returned a path: the name
\* typed for a single file or None, the button disabled, is_converting set and
\* the worker started on a copy of the queue
StartWorker ==
    /\ \E fmt \in {"univ", "ome-zarr"} :
         /\ output_format' = fmt
         /\ IF Len(file_queue) = 1
            THEN custom_output_name' \in CustomNames(Stem(file_queue[1].name), Ext(fmt))
            ELSE custom_output_name' = <<>>
    /\ is_converting' = TRUE
    /\ threads' = threads + 1
    /\ file_list' = Copy(file_queue)
    /\ started_with' = file_queue
    /\ attempted' = <<>>
    /\ i' = 0
    /\ successful' = 0
    /\ failed' = 0
    /\ job' = NoJob
    /\ g_pc' = "batch"
    /\ UNCHANGED <<file_queue, file_listbox, folder, output_path>>
    /\ UNCHANGED notQueue

\* _start_conversion with no is_converting test
StartConversionUnguarded ==
    /\ g_pc # "off"
    /\ Len(file_queue) > 0
    /\ Cardinality(folder) <= MaxOutputs
    /\ StartWorker

\* _start_conversion: a click on Convert.  It returns at once while a batch is
\* converting, warns when the queue is empty, and a cancelled dialog of
\* _start_batch_conversion changes nothing.
StartConversion ==
    /\ g_pc # "off"
    /\ ~is_converting
    /\ Len(file_queue) > 0
    /\ Cardinality(folder) <= MaxOutputs
    /\ StartWorker

\* one iteration of the for loop of _convert_batch on the worker's file_list: the
\* output path is chosen, the adapters of the route run and the files they leave
\* are in the output folder.  A SystemExit ends the thread inside the loop.
\* (What the adapters did in detail is the job record of SpecGui.)
QueueJob ==
    /\ g_pc = "batch"
    /\ i < Len(file_list)
    /\ LET input_path == file_list[i + 1]
           src == SrcKind(input_path.name)
           route == BatchRoute(src, output_format)
           out == IF custom_output_name # <<>> /\ Len(file_list) = 1
                  THEN custom_output_name
                  ELSE ChooseOutput(Stem(input_path.name), Ext(output_format), folder)
       IN \E o \in RouteOutcomes(route) :
            LET r == RunRoute(route, o[1], o[2])
                reported == BatchReport(r)
            IN /\ output_path' = out
               /\ folder' = folder \cup (IF r.dest.exists THEN {out} ELSE {})
                                   \cup (IF r.temp.exists THEN {TempName(out)} ELSE {})
               /\ successful' = IF reported = "successful" THEN successful + 1 ELSE successful
               /\ failed' = IF reported = "failed" THEN failed + 1 ELSE failed
               /\ i' = IF reported = "none" THEN i ELSE i + 1
               /\ g_pc' = IF reported = "none" THEN "thread_ended" ELSE g_pc
               /\ threads' = IF reported = "none" THEN threads - 1 ELSE threads
               /\ attempted' = Append(attempted, input_path)
    /\ UNCHANGED <<file_list, output_format, is_converting, job, file_queue, file_listbox,
                   custom_output_name, started_with>>
    /\ UNCHANGED notQueue

\* the end of _convert_batch: the button is enabled again, is_converting cleared,
\* and the thread ends
QueueFinish ==
    /\ g_pc = "batch"
    /\ i = Len(file_list)
    /\ is_converting' = FALSE
    /\ threads' = threads - 1
    /\ g_pc' = "batch_done"
    /\ UNCHANGED <<file_list, i, output_format, successful, failed, job>>
    /\ UNCHANGED <<file_queue, file_listbox, custom_output_name, folder, output_path,
                   started_with, attempted>>
    /\ UNCHANGED notQueue

NextQueue ==
    \/ OnDrop
    \/ BrowseFiles
    \/ BrowseFolder
    \/ ClearFileList
    \/ StartConversion
    \/ QueueJob
    \/ QueueFinish

\* the GUI with its queue: files are queued and the queue cleared at any time,
\* also while the worker of a batch runs
SpecQueue == InitQueue /\ [][NextQueue]_vars

-----------------------------------------------------------------------------
\* The wrappers of the GUI that redirect the converters' output: each binds
\* builtins.print to its own log_print, and _convert_vsi_to_univ also adds a
\* GUILogHandler to a logger.  The worker thread runs one wrapper at a time;
\* _validate_file redirects print the same way on the main thread.

Wrappers == {"univ_to_ometiff", "univ_to_omezarr", "ometiff_to_univ", "omezarr_to_univ",
             "vsi_to_univ", "univ_to_vsi"}

\* the ways the try block of a wrapper is left: convert returned, an Exception
\* was raised (by the converter, or for a False result), or the constructor of
\* VSIToUniv called sys.exit
ExitPaths(w) ==
    {"return", "Exception"} \cup (IF w = "vsi_to_univ" THEN {"SystemExit"} ELSE {})

\* a GUI whose worker is between two wrappers
InitHooks ==
    /\ h_pc = "idle"
    /\ wrapper = "none"
    /\ exit_path = "none"
    /\ builtins_print = "print"
    /\ original_print = "print"
    /\ log_handlers = {}
    /\ v_pc = "idle"
    /\ v_original_print = "print"
    /\ file_queue = <<>>
    /\ file_listbox = <<>>
    /\ custom_output_name = <<>>
    /\ threads = 0
    /\ folder = {}
    /\ output_path = <<>>
    /\ started_with = <<>>
    /\ attempted = <<>>
    /\ g_pc = "off"
    /\ file_list = <<>>
    /\ i = 0
    /\ output_format = "univ"
    /\ successful = 0
    /\ failed = 0
    /\ job = NoJob
    /\ is_converting = FALSE
    /\ WriterOff
    /\ SceneOff

\* a wrapper up to its try: original_print = print; builtins.print = log_print,
\* and for _convert_vsi_to_univ vsi_logger.addHandler(log_handler) before that
WrapperEnter ==
    /\ h_pc = "idle"
    /\ \E w \in Wrappers :
         /\ wrapper' = w
         /\ log_handlers' = IF w = "vsi_to_univ" THEN log_handlers \cup {"GUILogHandler"}
                            ELSE log_handlers
         /\ builtins_print' = <<"log_print", w>>
    /\ original_print' = builtins_print
    /\ h_pc' = "wrapped"
    /\ UNCHANGED <<exit_path, v_pc, v_original_print>>
    /\ UNCHANGED notHooks

\* a wrapper whose hooks stay when the try block is left by an exception
WrapperExitOnReturnOnly ==
    /\ h_pc = "wrapped"
    /\ \E how \in ExitPaths(wrapper) :
         /\ exit_path' = how
         /\ builtins_print' = IF how = "return" THEN original_print ELSE builtins_print
         /\ log_handlers' = IF how = "return" THEN log_handlers \ {"GUILogHandler"}
                            ELSE log_handlers
    /\ h_pc' = "idle"
    /\ UNCHANGED <<wrapper, original_print, v_pc, v_original_print>>
    /\ UNCHANGED notHooks

\* the try block of a wrapper is left and its finally clause runs:
\* builtins.print = original_print, and vsi_logger.removeHandler(log_handler)
WrapperExit ==
    /\ h_pc = "wrapped"
    /\ \E how \in ExitPaths(wrapper) : exit_path' = how
    /\ builtins_print' = original_print
    /\ log_handlers' = IF wrapper = "vsi_to_univ" THEN log_handlers \ {"GUILogHandler"}
                       ELSE log_handlers
    /\ h_pc' = "idle"
    /\ UNCHANGED <<wrapper, original_print, v_pc, v_original_print>>
    /\ UNCHANGED notHooks

\* _validate_file up to its inner try, on the main thread
ValidateEnter ==
    /\ h_pc # "off"
    /\ v_pc = "idle"
    /\ v_original_print' = builtins_print
    /\ builtins_print' = <<"log_print", "validate">>
    /\ v_pc' = "validating"
    /\ UNCHANGED <<h_pc, wrapper, exit_path, original_print, log_handlers>>
    /\ UNCHANGED notHooks

\* the finally clause of _validate_file
ValidateExit ==
    /\ v_pc = "validating"
    /\ builtins_print' = v_original_print
    /\ v_pc' = "idle"
    /\ UNCHANGED <<h_pc, wrapper, exit_path, original_print, log_handlers, v_original_print>>
    /\ UNCHANGED notHooks

NextHooks ==
    \/ WrapperEnter
    \/ WrapperExit
    \/ ValidateEnter
    \/ ValidateExit

SpecHooks == InitHooks /\ [][NextHooks]_vars

\* C29: whichever way a wrapper is left, by a return, an Exception or a
\* SystemExit, builtins.print is bound again to the function it was bound to when
\* the wrapper was entered, and the GUILogHandler of the VSI wrapper is off the
\* logger whenever the worker is in no wrapper.
C29_HooksRestoredOnEveryExit ==
    /\ [][(h_pc = "wrapped" /\ h_pc' = "idle") =>
            /\ builtins_print' = original_print
            /\ "GUILogHandler" \notin log_handlers']_vars
    /\ [](h_pc = "idle" => log_handlers = {})

\* the VSI wrapper has been left by the SystemExit of the constructor
C29_Witness ==
    /\ h_pc = "idle"
    /\ wrapper = "vsi_to_univ"
    /\ exit_path = "SystemExit"
    /\ builtins_print = "print"
    /\ log_handlers = {}

-----------------------------------------------------------------------------
\* C24: at most one thread runs _convert_batch at any time: a worker is started
\* only while is_converting is False, is_converting is True from before the
\* worker starts, and it is cleared only by that worker when it finishes.
C24_AtMostOneWorker ==
    /\ [](threads <= 1 /\ (threads = 1 => is_converting))
    /\ [][/\ threads' > threads => (~is_converting /\ is_converting' /\ threads = 0)
          /\ (is_converting /\ ~is_converting') =>
                (g_pc = "batch" /\ i = Len(file_list) /\ threads = 1 /\ threads' = 0)]_vars

\* a second batch has been started after the first one finished
C24_Witness ==
    /\ threads = 1
    /\ is_converting
    /\ i = 0
    /\ output_path # <<>>

\* C25 as stated: a batch that was started comes to its end: as long as
\* is_converting is set its worker thread is alive and can take its next step,
\* the next file of the loop or the reset of is_converting after the last file.
C25_StartedBatchEnds ==
    is_converting => (threads = 1 /\ ENABLED (QueueJob \/ QueueFinish))

\* C26: the worker goes through the files the queue held when the batch was
\* started, in that order, whatever is added to the queue or cleared from it
\* meanwhile; a batch that reaches its end has gone through all of them.
C26_BatchConvertsQueueAtStart ==
    /\ Len(attempted) <= Len(started_with)
    /\ attempted = SubSeq(started_with, 1, Len(attempted))
    /\ g_pc = "batch" => (file_list = started_with /\ Len(attempted) = i)
    /\ g_pc = "batch_done" => attempted = started_with

\* a batch of two files has ended while the queue was changed under it
C26_Witness ==
    /\ g_pc = "batch_done"
    /\ Len(attempted) = 2
    /\ file_queue # <<>>
    /\ file_queue # started_with
    /\ file_queue[1] \notin {started_with[1], started_with[2]}

\* C27: the queue holds no path twice, and the listbox has one entry per queue
\* element, the name of that path, in the same order.
C27_QueueAndListboxAgree ==
    /\ \A j, k \in 1..Len(file_queue) : file_queue[j] = file_queue[k] => j = k
    /\ Len(file_listbox) = Len(file_queue)
    /\ \A k \in 1..Len(file_queue) : file_listbox[k] = file_queue[k].name

\* two files of the same name from two folders are queued, after a clear
C27_Witness ==
    /\ Len(file_queue) = 2
    /\ file_queue[1].dir = "b"
    /\ file_listbox = <<file_queue[1].name, file_queue[1].name>>

\* C28: a job of a batch of two or more files chooses an output name that does not
\* exist in the output folder: <stem>_converted<ext>, or else <stem>_converted_<n><ext>
\* for the least n >= 1 whose name does not exist.
C28_OutputNameIsFree ==
    [][(g_pc = "batch" /\ Len(file_list) >= 2 /\ attempted' # attempted) =>
         LET stem == Stem(file_list[i + 1].name)
             ext == Ext(output_format)
         IN /\ output_path' \notin folder
            /\ \E n \in 0..Cardinality(folder) :
                 /\ output_path' = stem \o <<"_converted">>
                                        \o (IF n = 0 THEN <<>> ELSE <<"_", n>>) \o ext
                 /\ \A m \in 0..(n - 1) : OutputName(stem, m, ext) \in folder]_vars

\* an output found in the folder, and the second file of the batch, of the same
\* stem as the first, has been given the counter after the first one's
C28_Witness ==
    /\ Len(file_list) = 2
    /\ i = 2
    /\ output_path = <<"s", "_converted", "_", 2, ".univ">>
    /\ {<<"s", "_converted", ".univ">>, <<"s", "_converted", "_", 1, ".univ">>} \subseteq folder

-----------------------------------------------------------------------------
\* The resolution levels get_vsi_info lists for the main scene, and the extents of
\* the data _load_vsi reads at a level.

\* the smaller side get_vsi_info still lists a level for
ResolutionFloor == 512

MainExtents == Near(ResolutionFloor) \cup Near(2 * ResolutionFloor)
               \cup Near(4 * ResolutionFloor)

\* the while loop of get_vsi_info from (width, height) at level lv on
RECURSIVE AvailableResolutions(_, _, _)
AvailableResolutions(width, height, lv) ==
    IF Min(width, height) >= ResolutionFloor
    THEN <<[level |-> lv, width |-> width, height |-> height,
            downsample_factor |-> Pow2(lv)]>>
         \o AvailableResolutions(width \div 2, height \div 2, lv + 1)
    ELSE <<>>

\* a file is opened whose main scene has some size
InitLevels ==
    /\ main_scene \in [width : MainExtents, height : MainExtents]
    /\ available_resolutions = <<>>
    /\ loaded = <<>>
    /\ s_pc = "off"
    /\ scenes = <<>>
    /\ scene_info = <<>>
    /\ scene_types = <<>>
    /\ scene_index = -1
    /\ categories = <<>>
    /\ vsi_resolution = [text |-> "Highest image (auto)", target |-> -1]
    /\ main_scene_idx = -1
    /\ WriterOff
    /\ GuiOff

\* get_vsi_info; an exception of the scene analysis gives no level
GetVsiInfo ==
    /\ \E raised \in BOOLEAN :
         available_resolutions' =
             IF raised THEN <<>>
             ELSE AvailableResolutions(main_scene.width, main_scene.height, 0)
    /\ UNCHANGED <<main_scene, loaded>>
    /\ UNCHANGED notLevels

\* _load_vsi reads the main scene at a resolution_level: the data as the reader
\* gives them, sliced [..., ::2**level, ::2**level] for a level above 0
LoadAtLevel ==
    /\ \E rl \in 0..MaxLevel :
         loaded' = [level |-> rl,
                    Y |-> IF rl > 0 THEN StridedLen(main_scene.height, Pow2(rl))
                          ELSE main_scene.height,
                    X |-> IF rl > 0 THEN StridedLen(main_scene.width, Pow2(rl))
                          ELSE main_scene.width]
    /\ UNCHANGED <<main_scene, available_resolutions>>
    /\ UNCHANGED notLevels

NextLevels ==
    \/ GetVsiInfo
    \/ LoadAtLevel

SpecLevels == InitLevels /\ [][NextLevels]_vars

\* C30 as stated: an entry of available_resolutions has downsample_factor
\* 2^level, and the data loaded at the level of an entry have the X and Y extents
\* the entry lists as width and height.
C30_AdvertisedMatchesLoaded ==
    \A k \in 1..Len(available_resolutions) :
        LET e == available_resolutions[k]
        IN /\ e.level = k - 1
           /\ e.downsample_factor = Pow2(e.level)
           /\ (loaded # <<>> /\ loaded.level = e.level) =>
                (loaded.X = e.width /\ loaded.Y = e.height)

====
